---- MODULE Spec2Model ----
(***************************************************************************)
(* A model of the Gym-app workout session engine.                          *)
(*                                                                         *)
(* The component modelled is WorkoutSession as it stands in                *)
(* src/components/NewRoutineForm.tsx (lines 700-1617): the React state of  *)
(* the session, its handlers, its effects and its asynchronous saves, over *)
(* the two AsyncStorage keys workoutHistory and workoutRoutines.  The      *)
(* earlier copy of the component in src/components/WorkoutSession.tsx      *)
(* (counter-based rest timer, no toggle, one global rest time) is modelled *)
(* by the Legacy* definitions.                                             *)
(*                                                                         *)
(* JavaScript strings are sequences of one-character strings, so that      *)
(* toLowerCase, parseFloat, toString and join are computed, not assumed.   *)
(* undefined / null values are the empty sequence, a present value v is    *)
(* the one-element sequence <<v>>.  Times are milliseconds.                *)
(***************************************************************************)
EXTENDS Integers, Sequences, FiniteSets, TLC

\* ------------------------------------------------------------------------
\* Optional values (undefined / null)
\* ------------------------------------------------------------------------
None == <<>>

Some(v) == <<v>>

IsSome(o) == o # <<>>

Val(o) == o[1]

Max(a, b) == IF a >= b THEN a ELSE b

Min(a, b) == IF a <= b THEN a ELSE b

\* Math.ceil(a / b) for b > 0 (TLC's \div rounds towards minus infinity)
CeilDiv(a, b) == -((-a) \div b)

\* Math.round(a / b) for a >= 0, b > 0: halves round up
RoundDiv(a, b) == (2 * a + b) \div (2 * b)

\* ------------------------------------------------------------------------
\* Strings
\* ------------------------------------------------------------------------
UpperChars == <<"A", "B", "C", "D", "E", "F", "G", "H", "I", "J", "K", "L", "M",
                "N", "O", "P", "Q", "R", "S", "T", "U", "V", "W", "X", "Y", "Z">>

LowerChars == <<"a", "b", "c", "d", "e", "f", "g", "h", "i", "j", "k", "l", "m",
                "n", "o", "p", "q", "r", "s", "t", "u", "v", "w", "x", "y", "z">>

DigitChars == <<"0", "1", "2", "3", "4", "5", "6", "7", "8", "9">>

LowerChar(c) ==
    IF \E i \in 1..Len(UpperChars) : UpperChars[i] = c
    THEN LowerChars[CHOOSE i \in 1..Len(UpperChars) : UpperChars[i] = c]
    ELSE c

\* String.prototype.toLowerCase
ToLowerCase(str) == [i \in 1..Len(str) |-> LowerChar(str[i])]

IsDigit(c) == \E i \in 1..Len(DigitChars) : DigitChars[i] = c

DigitVal(c) == (CHOOSE i \in 1..Len(DigitChars) : DigitChars[i] = c) - 1

RECURSIVE Pow10(_)
Pow10(k) == IF k = 0 THEN 1 ELSE 10 * Pow10(k - 1)

RECURSIVE DigitRun(_)
\* the longest prefix of str made of decimal digits
DigitRun(str) ==
    IF str # <<>> /\ IsDigit(Head(str))
    THEN <<Head(str)>> \o DigitRun(Tail(str))
    ELSE <<>>

RECURSIVE DigitsValue(_)
DigitsValue(ds) ==
    IF ds = <<>> THEN 0
    ELSE 10 * DigitsValue(SubSeq(ds, 1, Len(ds) - 1)) + DigitVal(ds[Len(ds)])

RECURSIVE SkipWhite(_)
SkipWhite(str) ==
    IF str # <<>> /\ Head(str) = " " THEN SkipWhite(Tail(str)) ELSE str

RECURSIVE NatToString(_)
NatToString(n) ==
    IF n < 10 THEN <<DigitChars[n + 1]>>
    ELSE NatToString(n \div 10) \o <<DigitChars[(n % 10) + 1]>>

\* Number.prototype.toString for an integer
NumberToString(n) == IF n < 0 THEN <<"-">> \o NatToString(-n) ELSE NatToString(n)

RECURSIVE JoinFrom(_, _, _)
JoinFrom(strs, sep, i) ==
    IF i > Len(strs) THEN <<>>
    ELSE IF i = Len(strs) THEN strs[i]
    ELSE strs[i] \o sep \o JoinFrom(strs, sep, i + 1)

\* Array.prototype.join
Join(strs, sep) == JoinFrom(strs, sep, 1)

\* ------------------------------------------------------------------------
\* Numbers: a JavaScript number is NaN or the decimal n / 10^e, kept in
\* lowest terms of e.  The texts of the model only produce values that a
\* double holds exactly, so decimal arithmetic agrees with the double's.
\* ------------------------------------------------------------------------
NaN == [nan |-> TRUE, n |-> 0, e |-> 0]

RECURSIVE Norm(_, _)
Norm(n, e) ==
    IF e > 0 /\ n % 10 = 0 THEN Norm(n \div 10, e - 1)
    ELSE [nan |-> FALSE, n |-> n, e |-> e]

Num(n) == Norm(n, 0)

NumMul(a, b) == IF a.nan \/ b.nan THEN NaN ELSE Norm(a.n * b.n, a.e + b.e)

NumAdd(a, b) ==
    IF a.nan \/ b.nan THEN NaN
    ELSE LET e == Max(a.e, b.e)
         IN  Norm(a.n * Pow10(e - a.e) + b.n * Pow10(e - b.e), e)

\* parseFloat: leading white space, an optional sign, digits, an optional
\* fraction; NaN when no digit is found; whatever follows is ignored.
\* (No text of the model has an exponent or spells Infinity.)
ParseFloat(str) ==
    LET t  == SkipWhite(str)
        u  == IF t # <<>> /\ Head(t) \in {"-", "+"} THEN Tail(t) ELSE t
        ip == DigitRun(u)
        r  == SubSeq(u, Len(ip) + 1, Len(u))
        fp == IF r # <<>> /\ Head(r) = "." THEN DigitRun(Tail(r)) ELSE <<>>
        m  == DigitsValue(ip) * Pow10(Len(fp)) + DigitsValue(fp)
    IN  IF ip = <<>> /\ fp = <<>> THEN NaN
        ELSE Norm(IF t # <<>> /\ Head(t) = "-" THEN -m ELSE m, Len(fp))

\* value || fallback for an optional number: undefined and 0 are falsy
OrDefault(o, d) == IF IsSome(o) /\ Val(o) # 0 THEN Val(o) ELSE d

\* a string is truthy iff it is not empty
Truthy(str) == str # <<>>

\* ------------------------------------------------------------------------
\* State
\* ------------------------------------------------------------------------
VARIABLES
    now,                  \* Date.now(), milliseconds
    appState,             \* AppState.currentState: "active" or "background"
    historyStore,         \* AsyncStorage key workoutHistory: None or Some(array)
    routinesStore,        \* AsyncStorage key workoutRoutines: None or Some(array)
    io,                   \* number of getItem / setItem calls made on each key
    routines,             \* Example: the routines loaded for the home screen
    currentScreen,        \* Example: "home", "form" or "workout"
    selectedRoutine,      \* Example: the routine prop of the session, or None
    editingRoutine,       \* Example: the existingRoutine prop of the form, or None
    loads,                \* Example: loadRoutines calls awaiting getItem
    deletes,              \* Example: handleDeleteRoutine calls in flight
    routineName,          \* NewRoutineForm state
    selectedExercises,    \* NewRoutineForm state
    formSaves,            \* the saveRoutine calls in flight
    component,            \* which WorkoutSession the Example mounts: "current" or "legacy"
    workoutExercises,     \* WorkoutSession state
    timerActive,
    timeRemaining,
    timerEndTime,         \* None or Some(end, in milliseconds)
    workoutStartTime,
    currentDuration,
    currentVolume,
    completedSets,
    restTime,             \* the earlier component's one rest time
    showTimerModal,
    currentExerciseIndex,
    selectedRestTimeRef,
    effTimerActive,       \* timerActive as captured by the timer and AppState effects
    effTimerEndTime,      \* timerEndTime as captured by the same effects
    intervalSince,        \* when the rest-timer interval was created or last fired
    resumePending,        \* an AppState "change" event to "active" is queued
    initPending,          \* initializeWorkoutWithHistory awaits getItem
    saves,                \* the saveWorkoutData calls in flight
    prompt,               \* the "Update Routine?" alert, with the closure it holds
    notifications,        \* "rest complete" notifications fired in the current Running period
    periodEnd,            \* wall-clock end of the current Running period (start + duration)
    lastAlert,            \* title of the last Alert.alert
    lastOp                \* the last handler that ran, and its arguments

storeVars == <<historyStore, routinesStore, io>>

formVars == <<editingRoutine, loads, deletes, routineName, selectedExercises, formSaves>>

exampleVars == <<routines, currentScreen, selectedRoutine, component, formVars>>

timerVars == <<timerActive, timeRemaining, timerEndTime>>

effectVars == <<effTimerActive, effTimerEndTime, intervalSince>>

modalVars == <<showTimerModal, currentExerciseIndex, selectedRestTimeRef>>

derivedVars == <<currentVolume, completedSets>>

sessionVars == <<workoutExercises, workoutStartTime, currentDuration, restTime>>

vars == <<now, appState, storeVars, exampleVars, sessionVars, derivedVars, timerVars,
          effectVars, modalVars, resumePending, initPending, saves, prompt,
          notifications, periodEnd, lastAlert, lastOp>>

\* ------------------------------------------------------------------------
\* Program constants
\* ------------------------------------------------------------------------
DefaultSets == 3

DefaultReps == 10

DefaultRestTime == 90

HistoryCap == 100

TickPeriod == 1000

timerOptions == <<30, 45, 60, 75, 90, 105, 120, 135, 150, 165, 180, 195, 210, 225,
                  240, 255, 270, 285, 300>>

\* ------------------------------------------------------------------------
\* Arrays
\* ------------------------------------------------------------------------
\* Array.prototype.findIndex, 1-based; 0 when no element satisfies P
FindIndex(arr, P(_)) ==
    IF \E i \in 1..Len(arr) : P(arr[i])
    THEN CHOOSE i \in 1..Len(arr) : P(arr[i]) /\ \A j \in 1..(i - 1) : ~P(arr[j])
    ELSE 0

\* arr.slice().reverse().find(P): the index in arr of the last element satisfying P
FindLastIndex(arr, P(_)) ==
    IF \E i \in 1..Len(arr) : P(arr[i])
    THEN CHOOSE i \in 1..Len(arr) : P(arr[i]) /\ \A j \in (i + 1)..Len(arr) : ~P(arr[j])
    ELSE 0

RECURSIVE FlatSets(_, _)
\* workoutExercises.flatMap(ex => ex.sets), from exercise i on
FlatSets(exercises, i) ==
    IF i > Len(exercises) THEN <<>>
    ELSE exercises[i].sets \o FlatSets(exercises, i + 1)

\* arr.filter(P).length
CountIf(arr, P(_)) == Cardinality({i \in 1..Len(arr) : P(arr[i])})

\* what JSON.parse yields for a stored key, [] when the key is absent
ReadArray(store) == IF IsSome(store) THEN Val(store) ELSE <<>>

\* ------------------------------------------------------------------------
\* initializeWorkoutWithHistory
\* ------------------------------------------------------------------------
SeedUsable(set) == set.completed /\ Truthy(set.weight) /\ Truthy(set.reps)

\* a faulty variant of SeedInWorkout: the first usable set instead of the last
SeedInWorkoutFirstSet(workout, exercise) ==
    LET i == FindIndex(workout.exercises,
                       LAMBDA ex : ToLowerCase(ex.exerciseName) = ToLowerCase(exercise.name))
    IN  IF i = 0 THEN None
        ELSE LET k == FindIndex(workout.exercises[i].sets, SeedUsable)
             IN  IF k = 0 THEN None
                 ELSE Some([weight |-> workout.exercises[i].sets[k].weight,
                            reps   |-> workout.exercises[i].sets[k].reps])

\* the seed one history item gives for an exercise: None, or the weight and
\* reps of the last usable set of the first exercise of that name
SeedInWorkout(workout, exercise) ==
    LET i == FindIndex(workout.exercises,
                       LAMBDA ex : ToLowerCase(ex.exerciseName) = ToLowerCase(exercise.name))
    IN  IF i = 0 THEN None
        ELSE LET k == FindLastIndex(workout.exercises[i].sets, SeedUsable)
             IN  IF k = 0 THEN None
                 ELSE Some([weight |-> workout.exercises[i].sets[k].weight,
                            reps   |-> workout.exercises[i].sets[k].reps])

\* for (const workout of history): the first item that gives a seed
ScanHistory(history, exercise) ==
    LET i == FindIndex(history, LAMBDA workout : IsSome(SeedInWorkout(workout, exercise)))
    IN  IF i = 0 THEN None ELSE SeedInWorkout(history[i], exercise)

\* Array.from({ length }, (_, index) => ({ setNumber: index + 1, ... }))
NewSets(length, weight, reps) ==
    [index \in 1..length |->
        [setNumber |-> index, weight |-> weight, reps |-> reps, completed |-> FALSE]]

InitExercise(exercise, history) ==
    LET seed == ScanHistory(history, exercise)
        defaultWeight == IF IsSome(seed) THEN Val(seed).weight ELSE <<"0">>
        defaultReps   == IF IsSome(seed) THEN Val(seed).reps
                         ELSE NumberToString(OrDefault(exercise.reps, DefaultReps))
    IN  [exerciseId   |-> exercise.id,
         exerciseName |-> exercise.name,
         currentSet   |-> 0,
         restTime     |-> DefaultRestTime,
         sets         |-> NewSets(OrDefault(exercise.sets, DefaultSets),
                                  defaultWeight, defaultReps)]

InitExercises(routine, history) ==
    [i \in 1..Len(routine.exercises) |-> InitExercise(routine.exercises[i], history)]

\* ------------------------------------------------------------------------
\* The volume / completed-sets effect
\* ------------------------------------------------------------------------
\* a faulty variant of Counted: uncompleted sets count too
CountedAlways(set) == Truthy(set.weight) /\ Truthy(set.reps)

Counted(set) == set.completed /\ Truthy(set.weight) /\ Truthy(set.reps)

RECURSIVE SumVolume(_)
SumVolume(sets) ==
    IF sets = <<>> THEN Num(0)
    ELSE LET set == sets[Len(sets)]
             before == SumVolume(SubSeq(sets, 1, Len(sets) - 1))
         IN  IF Counted(set)
             THEN NumAdd(before, NumMul(ParseFloat(set.weight), ParseFloat(set.reps)))
             ELSE before

TotalVolume(exercises) == SumVolume(FlatSets(exercises, 1))

TotalCompletedSets(exercises) == CountIf(FlatSets(exercises, 1), Counted)

\* setWorkoutExercises(next), and the effect that depends on workoutExercises
SetWorkoutExercises(next) ==
    /\ workoutExercises' = next
    /\ currentVolume' = TotalVolume(next)
    /\ completedSets' = TotalCompletedSets(next)

\* ------------------------------------------------------------------------
\* Session handlers
\* ------------------------------------------------------------------------
Op(name, res) == [op |-> name, res |-> res, at |-> <<>>]

\* the same for a handler called on one set
OpAt(name, res, exerciseIndex, setIndex) ==
    [op |-> name, res |-> res, at |-> <<exerciseIndex, setIndex>>]

\* the session is rendered (not "Loading workout...") and can be touched: the
\* app is in the foreground and no decision alert is up
SessionReady ==
    /\ appState = "active"
    /\ currentScreen = "workout"
    /\ component = "current"
    /\ IsSome(selectedRoutine)
    /\ workoutExercises # <<>>
    /\ prompt = None

\* the session's buttons and text fields can be touched
Touchable == SessionReady /\ ~showTimerModal

\* the timer effect runs: the time its interval is created, 0 when it creates none
IntervalCreated(active, endTime) == IF active /\ IsSome(endTime) THEN now ELSE 0

\* A render caused by a press is committed, with its effects, before the next
\* event is handled: the timer and AppState effects see the new timer state,
\* and a new interval is created when their dependencies changed.
EffectsRerun ==
    /\ effTimerActive' = timerActive'
    /\ effTimerEndTime' = timerEndTime'
    /\ intervalSince' = IF <<timerActive', timerEndTime'>> # <<effTimerActive, effTimerEndTime>>
                        THEN IntervalCreated(timerActive', timerEndTime')
                        ELSE intervalSince

\* a press that leaves the rest timer alone
TimerUntouched == UNCHANGED <<timerVars, notifications, periodEnd>> /\ EffectsRerun

\* updateSet: [field]: value on one set
ReplaceField(exercises, exerciseIndex, setIndex, field, value) ==
    [exercises EXCEPT ![exerciseIndex + 1].sets[setIndex + 1][field] = value]

UpdateSet(exerciseIndex, setIndex, field, value) ==
    /\ Touchable
    /\ exerciseIndex \in 0..(Len(workoutExercises) - 1)
    /\ setIndex \in 0..(Len(workoutExercises[exerciseIndex + 1].sets) - 1)
    \* editable={!set.completed}
    /\ ~workoutExercises[exerciseIndex + 1].sets[setIndex + 1].completed
    /\ SetWorkoutExercises(ReplaceField(workoutExercises, exerciseIndex, setIndex, field, value))
    /\ TimerUntouched
    /\ lastOp' = Op("updateSet", field)
    /\ UNCHANGED <<now, appState, storeVars, exampleVars, workoutStartTime, currentDuration,
                   restTime, modalVars, resumePending, initPending, saves, prompt, lastAlert>>

\* a faulty variant of UncompleteSet: the completed flag is not cleared
UncompleteSetKeepsCompleted(exercises, exerciseIndex, setIndex) == exercises

\* completeSet on a completed set: toggle it back
UncompleteSet(exercises, exerciseIndex, setIndex) ==
    [exercises EXCEPT ![exerciseIndex + 1].sets[setIndex + 1].completed = FALSE]

\* completeSet's check for missing data
\* a faulty variant of MissingData: nothing is ever missing
MissingDataNever(set) == FALSE

MissingData(set) ==
    \/ ~Truthy(set.weight)
    \/ ~Truthy(set.reps)
    \/ set.weight = <<"0">>
    \/ set.reps = <<"0">>

\* completeSet on a valid uncompleted set
MarkCompleted(exercises, exerciseIndex, setIndex) ==
    [exercises EXCEPT
        ![exerciseIndex + 1].currentSet =
            Min(setIndex + 1, Len(exercises[exerciseIndex + 1].sets) - 1),
        ![exerciseIndex + 1].sets[setIndex + 1].completed = TRUE]

\* a faulty variant of StartRestTimer: the default rest time is used, not the
\* exercise's
StartRestTimerDefault(seconds) ==
    /\ timerEndTime' = Some(now + DefaultRestTime * 1000)
    /\ timeRemaining' = DefaultRestTime
    /\ timerActive' = TRUE
    /\ notifications' = 0
    /\ periodEnd' = now + DefaultRestTime * 1000
    /\ effTimerActive' = TRUE
    /\ effTimerEndTime' = Some(now + DefaultRestTime * 1000)
    /\ intervalSince' = now

\* the rest timer is started, and the effects that depend on it run again
StartRestTimer(seconds) ==
    /\ timerEndTime' = Some(now + seconds * 1000)
    /\ timeRemaining' = seconds
    /\ timerActive' = TRUE
    /\ notifications' = 0
    /\ periodEnd' = now + seconds * 1000
    /\ effTimerActive' = TRUE
    /\ effTimerEndTime' = Some(now + seconds * 1000)
    /\ intervalSince' = now

CompleteSet(exerciseIndex, setIndex) ==
    /\ Touchable
    /\ exerciseIndex \in 0..(Len(workoutExercises) - 1)
    /\ setIndex \in 0..(Len(workoutExercises[exerciseIndex + 1].sets) - 1)
    /\ LET exercise == workoutExercises[exerciseIndex + 1]
           set == exercise.sets[setIndex + 1]
       IN  IF set.completed
           THEN /\ SetWorkoutExercises(UncompleteSet(workoutExercises, exerciseIndex, setIndex))
                /\ TimerUntouched
                /\ lastOp' = OpAt("completeSet", "uncompleted", exerciseIndex, setIndex)
                /\ UNCHANGED lastAlert
           ELSE IF MissingData(set)
           THEN /\ lastAlert' = "Missing Data"
                /\ TimerUntouched
                /\ lastOp' = OpAt("completeSet", "invalid", exerciseIndex, setIndex)
                /\ UNCHANGED <<workoutExercises, derivedVars>>
           ELSE /\ SetWorkoutExercises(MarkCompleted(workoutExercises, exerciseIndex, setIndex))
                /\ StartRestTimer(exercise.restTime)
                /\ lastOp' = OpAt("completeSet", "completed", exerciseIndex, setIndex)
                /\ UNCHANGED lastAlert
    /\ UNCHANGED <<now, appState, storeVars, exampleVars, workoutStartTime, currentDuration,
                   restTime, modalVars, resumePending, initPending, saves, prompt>>

\* addNewSet: the new set, from the exercise as the handler sees it
NewSetFor(exercise) ==
    LET lastSet == IF exercise.sets = <<>> THEN None
                   ELSE Some(exercise.sets[Len(exercise.sets)])
    IN  [setNumber |-> Len(exercise.sets) + 1,
         weight    |-> IF IsSome(lastSet) /\ Truthy(Val(lastSet).weight)
                       THEN Val(lastSet).weight ELSE <<"0">>,
         reps      |-> IF IsSome(lastSet) /\ Truthy(Val(lastSet).reps)
                       THEN Val(lastSet).reps ELSE <<"1", "0">>,
         completed |-> FALSE]

AppendSet(exercises, exerciseIndex, newSet) ==
    [exercises EXCEPT ![exerciseIndex + 1].sets = Append(@, newSet)]

AddNewSet(exerciseIndex) ==
    /\ Touchable
    /\ exerciseIndex \in 0..(Len(workoutExercises) - 1)
    /\ SetWorkoutExercises(AppendSet(workoutExercises, exerciseIndex,
                                     NewSetFor(workoutExercises[exerciseIndex + 1])))
    /\ TimerUntouched
    /\ lastOp' = OpAt("addNewSet", "added", exerciseIndex,
                       Len(workoutExercises[exerciseIndex + 1].sets))
    /\ UNCHANGED <<now, appState, storeVars, exampleVars, workoutStartTime, currentDuration,
                   restTime, modalVars, resumePending, initPending, saves, prompt, lastAlert>>

\* addNewSet called twice by the handlers of one render: both calls read the
\* same workoutExercises, and their two updaters are applied one after the other
AddNewSetTwice(exerciseIndex) ==
    /\ Touchable
    /\ exerciseIndex \in 0..(Len(workoutExercises) - 1)
    /\ SetWorkoutExercises(
          AppendSet(AppendSet(workoutExercises, exerciseIndex,
                              NewSetFor(workoutExercises[exerciseIndex + 1])),
                    exerciseIndex, NewSetFor(workoutExercises[exerciseIndex + 1])))
    /\ TimerUntouched
    /\ lastOp' = OpAt("addNewSetTwice", "added", exerciseIndex,
                       Len(workoutExercises[exerciseIndex + 1].sets))
    /\ UNCHANGED <<now, appState, storeVars, exampleVars, workoutStartTime, currentDuration,
                   restTime, modalVars, resumePending, initPending, saves, prompt, lastAlert>>

\* the "Skip Rest" button, rendered while timerActive
SkipRest ==
    /\ Touchable
    /\ timerActive
    /\ timerActive' = FALSE
    /\ timeRemaining' = 0
    /\ timerEndTime' = None
    /\ periodEnd' = 0
    /\ EffectsRerun
    /\ lastOp' = Op("skipRest", "idle")
    /\ UNCHANGED <<now, appState, storeVars, exampleVars, sessionVars, derivedVars, modalVars,
                   resumePending, initPending, saves, prompt, notifications, lastAlert>>

OpenTimerModal(exerciseIndex) ==
    /\ Touchable
    /\ exerciseIndex \in 0..(Len(workoutExercises) - 1)
    /\ currentExerciseIndex' = exerciseIndex
    /\ selectedRestTimeRef' = OrDefault(Some(workoutExercises[exerciseIndex + 1].restTime),
                                        DefaultRestTime)
    /\ showTimerModal' = TRUE
    /\ TimerUntouched
    /\ lastOp' = Op("openTimerModal", "open")
    /\ UNCHANGED <<now, appState, storeVars, exampleVars, sessionVars, derivedVars,
                   resumePending, initPending, saves, prompt, lastAlert>>

\* a press on one of the picker's options: only the ref changes
SelectRestTime(seconds) ==
    /\ SessionReady
    /\ showTimerModal
    /\ \E i \in 1..Len(timerOptions) : timerOptions[i] = seconds
    /\ selectedRestTimeRef' = seconds
    /\ TimerUntouched
    /\ lastOp' = Op("selectRestTime", "ref")
    /\ UNCHANGED <<now, appState, storeVars, exampleVars, sessionVars, derivedVars,
                   showTimerModal, currentExerciseIndex, resumePending, initPending, saves,
                   prompt, lastAlert>>

CloseTimerModal ==
    /\ SessionReady
    /\ showTimerModal
    /\ SetWorkoutExercises([workoutExercises EXCEPT
                               ![currentExerciseIndex + 1].restTime = selectedRestTimeRef])
    /\ showTimerModal' = FALSE
    /\ TimerUntouched
    /\ lastOp' = Op("closeTimerModal", "closed")
    /\ UNCHANGED <<now, appState, storeVars, exampleVars, workoutStartTime, currentDuration,
                   restTime, currentExerciseIndex, selectedRestTimeRef, resumePending,
                   initPending, saves, prompt, lastAlert>>

\* ------------------------------------------------------------------------
\* Mounting and unmounting the session (Example)
\* ------------------------------------------------------------------------
\* the useState initial values of a session mounted now, with the exercises
\* its first effects leave in workoutExercises
SessionMountedWith(exercises) ==
    /\ workoutExercises' = exercises
    /\ timerActive' = FALSE
    /\ timeRemaining' = 0
    /\ timerEndTime' = None
    /\ workoutStartTime' = now
    /\ currentDuration' = 0
    /\ currentVolume' = Num(0)
    /\ completedSets' = 0
    /\ restTime' = DefaultRestTime
    /\ showTimerModal' = FALSE
    /\ currentExerciseIndex' = 0
    /\ selectedRestTimeRef' = DefaultRestTime
    /\ effTimerActive' = FALSE
    /\ effTimerEndTime' = None
    /\ intervalSince' = 0
    /\ prompt' = None
    /\ notifications' = 0
    /\ periodEnd' = 0

SessionMounted == SessionMountedWith(<<>>)

\* a faulty variant of SessionUnmounted: the timer effect has no cleanup, its
\* interval outlives the session
SessionUnmountedKeepsInterval ==
    /\ workoutExercises' = <<>>
    /\ timerActive' = FALSE
    /\ timeRemaining' = 0
    /\ timerEndTime' = None
    /\ workoutStartTime' = 0
    /\ currentDuration' = 0
    /\ currentVolume' = Num(0)
    /\ completedSets' = 0
    /\ restTime' = DefaultRestTime
    /\ showTimerModal' = FALSE
    /\ currentExerciseIndex' = 0
    /\ selectedRestTimeRef' = DefaultRestTime
    /\ UNCHANGED <<effTimerActive, effTimerEndTime, intervalSince>>
    /\ prompt' = None
    /\ notifications' = 0
    /\ periodEnd' = 0
    /\ initPending' = FALSE
    /\ resumePending' = FALSE

\* the session is gone: its state is discarded and its effects are cleaned up
\* (clearInterval, subscription.remove)
SessionUnmounted ==
    /\ workoutExercises' = <<>>
    /\ timerActive' = FALSE
    /\ timeRemaining' = 0
    /\ timerEndTime' = None
    /\ workoutStartTime' = 0
    /\ currentDuration' = 0
    /\ currentVolume' = Num(0)
    /\ completedSets' = 0
    /\ restTime' = DefaultRestTime
    /\ showTimerModal' = FALSE
    /\ currentExerciseIndex' = 0
    /\ selectedRestTimeRef' = DefaultRestTime
    /\ effTimerActive' = FALSE
    /\ effTimerEndTime' = None
    /\ intervalSince' = 0
    /\ prompt' = None
    /\ notifications' = 0
    /\ periodEnd' = 0
    /\ initPending' = FALSE
    /\ resumePending' = FALSE

\* handleWorkoutClose
HandleWorkoutClose ==
    /\ selectedRoutine' = None
    /\ currentScreen' = "home"
    /\ UNCHANGED <<routines, component, formVars>>
    /\ SessionUnmounted

\* handleRoutinePress: the session is mounted and its initialization reads the history
StartWorkout(i) ==
    /\ appState = "active"
    /\ currentScreen = "home"
    /\ component = "current"
    /\ i \in 1..Len(routines)
    /\ selectedRoutine' = Some(routines[i])
    /\ currentScreen' = "workout"
    /\ SessionMounted
    /\ initPending' = TRUE
    /\ io' = [io EXCEPT !.historyGet = @ + 1]
    /\ lastOp' = Op("startWorkout", "mounted")
    /\ UNCHANGED <<now, appState, historyStore, routinesStore, routines, component, formVars,
                   resumePending, saves, lastAlert>>

\* initializeWorkoutWithHistory, once getItem("workoutHistory") has resolved
InitializeWorkout ==
    /\ currentScreen = "workout"
    /\ initPending
    /\ initPending' = FALSE
    /\ SetWorkoutExercises(InitExercises(Val(selectedRoutine), ReadArray(historyStore)))
    /\ lastOp' = Op("initialize", "initialized")
    /\ UNCHANGED <<now, appState, storeVars, exampleVars, workoutStartTime, currentDuration,
                   restTime, timerVars, effectVars, modalVars, resumePending, saves, prompt,
                   notifications, periodEnd, lastAlert>>

\* the catch block of initializeWorkoutWithHistory: the exercise without a seed
FallbackExercise(exercise) ==
    [exerciseId   |-> exercise.id,
     exerciseName |-> exercise.name,
     currentSet   |-> 0,
     restTime     |-> DefaultRestTime,
     sets         |-> NewSets(OrDefault(exercise.sets, DefaultSets), <<"0">>,
                              NumberToString(OrDefault(exercise.reps, DefaultReps)))]

\* initializeWorkoutWithHistory when getItem("workoutHistory") rejects or
\* JSON.parse throws: console.error and the fallback initialization
InitializeWorkoutFailed ==
    /\ currentScreen = "workout"
    /\ initPending
    /\ initPending' = FALSE
    /\ SetWorkoutExercises([i \in 1..Len(Val(selectedRoutine).exercises) |->
                               FallbackExercise(Val(selectedRoutine).exercises[i])])
    /\ lastOp' = Op("initialize", "fallback")
    /\ io' = [io EXCEPT !.historyGet = @ + 1]
    /\ UNCHANGED <<now, appState, historyStore, routinesStore, exampleVars, workoutStartTime, currentDuration,
                   restTime, timerVars, effectVars, modalVars, resumePending, saves, prompt,
                   notifications, periodEnd, lastAlert>>

\* the back button's "Exit"
ExitWorkout ==
    /\ appState = "active"
    /\ currentScreen = "workout"
    /\ HandleWorkoutClose
    /\ lastOp' = Op("exit", IF timerActive THEN "resting" ELSE "closed")
    /\ UNCHANGED <<now, appState, storeVars, saves, lastAlert>>

\* ------------------------------------------------------------------------
\* The rest timer: interval callback, AppState handler, effects
\* ------------------------------------------------------------------------
\* Math.max(0, Math.ceil((timerEndTime.getTime() - now.getTime()) / 1000))
Remaining(endTime, t) == Max(0, CeilDiv(endTime - t, 1000))

\* a faulty variant of SyncTimer: on expiry the end time is left in place
SyncTimerKeepsEnd(endTime) ==
    IF Remaining(endTime, now) <= 0
    THEN /\ timerActive' = FALSE
         /\ timeRemaining' = 0
         /\ notifications' = notifications + 1
         /\ lastAlert' = "Rest Complete!"
         /\ periodEnd' = 0
         /\ UNCHANGED timerEndTime
    ELSE /\ timeRemaining' = Remaining(endTime, now)
         /\ UNCHANGED <<timerActive, timerEndTime, notifications, periodEnd, lastAlert>>

\* what the interval callback and the AppState handler both do with the
\* timerEndTime they captured
SyncTimer(endTime) ==
    IF Remaining(endTime, now) <= 0
    THEN /\ timerActive' = FALSE
         /\ timeRemaining' = 0
         /\ timerEndTime' = None
         /\ notifications' = notifications + 1
         /\ lastAlert' = "Rest Complete!"
         /\ periodEnd' = 0
    ELSE /\ timeRemaining' = Remaining(endTime, now)
         /\ UNCHANGED <<timerActive, timerEndTime, notifications, periodEnd, lastAlert>>

\* the rest-timer interval of the mounted session has a callback that is due
TickDue ==
    /\ appState = "active"
    /\ now - intervalSince >= TickPeriod
    /\ IF component = "legacy"
       THEN timerActive /\ timeRemaining > 0
       ELSE effTimerActive /\ IsSome(effTimerEndTime)

\* the setInterval callback of the timer effect
Tick ==
    /\ component = "current"
    /\ TickDue
    /\ SyncTimer(Val(effTimerEndTime))
    /\ intervalSince' = now
    /\ lastOp' = Op("tick", IF Remaining(Val(effTimerEndTime), now) <= 0
                                   THEN "expired" ELSE "running")
    /\ UNCHANGED <<now, appState, storeVars, exampleVars, sessionVars, derivedVars,
                   effTimerActive, effTimerEndTime, modalVars, resumePending, initPending,
                   saves, prompt>>

\* handleAppStateChange("active")
HandleAppStateChange ==
    /\ resumePending
    /\ resumePending' = FALSE
    /\ IF effTimerActive /\ IsSome(effTimerEndTime)
       THEN /\ SyncTimer(Val(effTimerEndTime))
            /\ lastOp' = Op("resume", IF Remaining(Val(effTimerEndTime), now) <= 0
                                             THEN "expired" ELSE "running")
       ELSE /\ UNCHANGED <<timerVars, notifications, periodEnd, lastAlert>>
            /\ lastOp' = Op("resume", "idle")
    /\ UNCHANGED <<now, appState, storeVars, exampleVars, sessionVars, derivedVars,
                   effectVars, modalVars, initPending, saves, prompt>>

\* React commits the render scheduled by a timer callback or an AppState
\* event and runs the effects whose dependencies changed: the old interval
\* and subscription are removed and new ones capture the current state.
FlushEffects ==
    /\ currentScreen = "workout"
    /\ component = "current"
    /\ <<effTimerActive, effTimerEndTime>> # <<timerActive, timerEndTime>>
    /\ effTimerActive' = timerActive
    /\ effTimerEndTime' = timerEndTime
    /\ intervalSince' = IntervalCreated(timerActive, timerEndTime)
    /\ UNCHANGED <<now, appState, storeVars, exampleVars, sessionVars, derivedVars, timerVars,
                   modalVars, resumePending, initPending, saves, prompt, notifications, periodEnd,
                   lastAlert, lastOp>>

\* the duration effect's interval callback
DurationTick ==
    /\ currentScreen = "workout"
    /\ component = "current"
    /\ appState = "active"
    /\ currentDuration # (now - workoutStartTime) \div 1000
    /\ currentDuration' = (now - workoutStartTime) \div 1000
    /\ UNCHANGED <<now, appState, storeVars, exampleVars, workoutExercises, workoutStartTime,
                   restTime, derivedVars, timerVars, effectVars, modalVars, resumePending,
                   initPending, saves, prompt, notifications, periodEnd, lastAlert, lastOp>>

\* the app is sent to the background: JavaScript timers stop firing
Background ==
    /\ appState = "active"
    /\ appState' = "background"
    /\ UNCHANGED <<now, storeVars, exampleVars, sessionVars, derivedVars, timerVars,
                   effectVars, modalVars, resumePending, initPending, saves, prompt,
                   notifications, periodEnd, lastAlert, lastOp>>

\* the app regains the foreground: an AppState change event is delivered
Foreground ==
    /\ appState = "background"
    /\ appState' = "active"
    /\ resumePending' = (currentScreen = "workout" /\ component = "current")
    /\ UNCHANGED <<now, storeVars, exampleVars, sessionVars, derivedVars, timerVars,
                   effectVars, modalVars, initPending, saves, prompt, notifications, periodEnd,
                   lastAlert, lastOp>>

\* the event loop has nothing to run: no render to commit, no AppState event
\* to deliver, no interval callback that is due
EventLoopIdle ==
    \/ currentScreen # "workout"
    \/ /\ <<effTimerActive, effTimerEndTime>> = <<timerActive, timerEndTime>>
       /\ ~resumePending
       /\ ~TickDue

\* d milliseconds pass
Advance(d) ==
    /\ d > 0
    /\ EventLoopIdle
    /\ now' = now + d
    /\ UNCHANGED <<appState, storeVars, exampleVars, sessionVars, derivedVars, timerVars,
                   effectVars, modalVars, resumePending, initPending, saves, prompt,
                   notifications, periodEnd, lastAlert, lastOp>>

\* ------------------------------------------------------------------------
\* saveWorkout and saveWorkoutData
\* ------------------------------------------------------------------------
\* a faulty variant of IsCompleted: every set counts as completed
IsCompletedAlways(set) == TRUE

IsCompleted(set) == set.completed

\* saveWorkout: the exercises with more sets than their routine exercise plans
HasAddedSets(workoutEx, routine) ==
    LET i == FindIndex(routine.exercises, LAMBDA routineEx : routineEx.id = workoutEx.exerciseId)
    IN  /\ i # 0
        /\ Len(workoutEx.sets) > OrDefault(routine.exercises[i].sets, DefaultSets)

ExercisesWithAddedSets(exercises, routine) ==
    {i \in 1..Len(exercises) : HasAddedSets(exercises[i], routine)}

\* the history item saveWorkoutData builds before its first await
BuildWorkout(exercises, routine) ==
    [id            |-> NumberToString(now),
     routineName   |-> routine.name,
     routineId     |-> routine.id,
     exercises     |-> exercises,
     startTime     |-> workoutStartTime,
     endTime       |-> now,
     duration      |-> RoundDiv(now - workoutStartTime, 60000),
     completedSets |-> CountIf(FlatSets(exercises, 1), IsCompleted),
     totalSets     |-> Len(FlatSets(exercises, 1))]

\* a faulty variant of PrependCapped: no splice(100)
PrependUncapped(history, workout) == <<workout>> \o history

\* history.unshift(workout); if (history.length > 100) history.splice(100)
PrependCapped(history, workout) ==
    LET all == <<workout>> \o history
    IN  IF Len(all) > HistoryCap THEN SubSeq(all, 1, HistoryCap) ELSE all

\* the routine exercise as the update leaves it
UpdateExerciseSets(routineEx, exercises) ==
    LET i == FindIndex(exercises,
                       LAMBDA wEx : ToLowerCase(wEx.exerciseName) = ToLowerCase(routineEx.name))
    IN  IF i # 0 /\ Len(exercises[i].sets) > OrDefault(routineEx.sets, DefaultSets)
        THEN [routineEx EXCEPT !.sets = Some(Len(exercises[i].sets))]
        ELSE routineEx

\* a faulty variant of ExercisesString: every name, never "..."
ExercisesStringWhole(exercises) ==
    Join([i \in 1..Len(exercises) |-> exercises[i].name], <<",", " ">>)

\* the first three names joined by ", ", and "..." when there are more
ExercisesString(exercises) ==
    LET names == [i \in 1..Len(exercises) |-> exercises[i].name]
    IN  IF Len(exercises) > 3
        THEN Join(SubSeq(names, 1, 3), <<",", " ">>) \o <<".", ".", ".">>
        ELSE Join(names, <<",", " ">>)

UpdateRoutine(r, exercises) ==
    LET updatedExercises ==
            [i \in 1..Len(r.exercises) |-> UpdateExerciseSets(r.exercises[i], exercises)]
    IN  [r EXCEPT !.exercises = updatedExercises,
                  !.exercisesString = ExercisesString(updatedExercises)]

\* routines.map(r => r.id === routine.id ? updated : r)
UpdateRoutines(stored, routine, exercises) ==
    [i \in 1..Len(stored) |->
        IF stored[i].id = routine.id THEN UpdateRoutine(stored[i], exercises) ELSE stored[i]]

\* saveWorkoutData(updateRoutine) up to its first await, with the
\* workoutExercises and routine of the render its closure belongs to
SaveWorkoutData(updateRoutine, exercises, routine) ==
    /\ saves' = Append(saves, [pc            |-> "getHistory",
                               updateRoutine |-> updateRoutine,
                               exercises     |-> exercises,
                               routine       |-> routine,
                               workout       |-> BuildWorkout(exercises, routine),
                               history       |-> <<>>,
                               routines      |-> <<>>])
    /\ io' = [io EXCEPT !.historyGet = @ + 1]

\* a faulty variant of Finish: the workout is committed whatever was completed
FinishUnchecked ==
    /\ Touchable
    /\ IF ExercisesWithAddedSets(workoutExercises, Val(selectedRoutine)) # {}
       THEN /\ prompt' = Some([exercises |-> workoutExercises,
                               routine   |-> Val(selectedRoutine)])
            /\ lastAlert' = "Update Routine?"
            /\ lastOp' = Op("finish", "ask")
            /\ UNCHANGED <<saves, io>>
       ELSE /\ SaveWorkoutData(FALSE, workoutExercises, Val(selectedRoutine))
            /\ lastOp' = Op("finish", "save")
            /\ UNCHANGED <<prompt, lastAlert>>
    /\ TimerUntouched
    /\ UNCHANGED <<now, appState, historyStore, routinesStore, exampleVars, sessionVars,
                   derivedVars, modalVars, resumePending, initPending>>

\* saveWorkout, the "Finish" button
Finish ==
    /\ Touchable
    /\ IF CountIf(FlatSets(workoutExercises, 1), IsCompleted) = 0
       THEN /\ lastAlert' = "No Sets Completed"
            /\ lastOp' = Op("finish", "empty")
            /\ UNCHANGED <<saves, prompt, io>>
       ELSE IF ExercisesWithAddedSets(workoutExercises, Val(selectedRoutine)) # {}
       THEN /\ prompt' = Some([exercises |-> workoutExercises,
                               routine   |-> Val(selectedRoutine)])
            /\ lastAlert' = "Update Routine?"
            /\ lastOp' = Op("finish", "ask")
            /\ UNCHANGED <<saves, io>>
       ELSE /\ SaveWorkoutData(FALSE, workoutExercises, Val(selectedRoutine))
            /\ lastOp' = Op("finish", "save")
            /\ UNCHANGED <<prompt, lastAlert>>
    /\ TimerUntouched
    /\ UNCHANGED <<now, appState, historyStore, routinesStore, exampleVars, sessionVars,
                   derivedVars, modalVars, resumePending, initPending>>

\* a button of the "Update Routine?" alert: "No, just this workout" or
\* "Yes, update routine"
AnswerPrompt(updateRoutine) ==
    /\ appState = "active"
    /\ currentScreen = "workout"
    /\ IsSome(prompt)
    /\ prompt' = None
    /\ SaveWorkoutData(updateRoutine, Val(prompt).exercises, Val(prompt).routine)
    /\ TimerUntouched
    /\ lastOp' = Op("answer", IF updateRoutine THEN "yes" ELSE "no")
    /\ UNCHANGED <<now, appState, historyStore, routinesStore, exampleVars, sessionVars,
                   derivedVars, modalVars, resumePending, initPending, lastAlert>>

RemoveAt(arr, k) == SubSeq(arr, 1, k - 1) \o SubSeq(arr, k + 1, Len(arr))

\* what every step of a save leaves alone while the save goes on
SaveStepFrame ==
    UNCHANGED <<now, appState, exampleVars, sessionVars, derivedVars, timerVars, effectVars,
                modalVars, resumePending, initPending, prompt, notifications, periodEnd, lastAlert>>

\* getItem("workoutHistory") resolves: unshift, splice, and setItem is called
SaveGotHistory(k) ==
    /\ component = "current"
    /\ k \in 1..Len(saves)
    /\ saves[k].pc = "getHistory"
    /\ saves' = [saves EXCEPT ![k].pc = "setHistory",
                              ![k].history = PrependCapped(ReadArray(historyStore),
                                                           saves[k].workout)]
    /\ io' = [io EXCEPT !.historySet = @ + 1]
    /\ lastOp' = Op("saveGotHistory", "read")
    /\ UNCHANGED <<historyStore, routinesStore>>
    /\ SaveStepFrame

\* "Workout Saved!", onSave(), onClose()
SaveDone(k) ==
    /\ saves' = RemoveAt(saves, k)
    /\ lastAlert' = "Workout Saved!"
    /\ HandleWorkoutClose

\* a faulty variant of SaveWroteHistory: the routines are read whatever was asked
SaveWroteHistoryThenRoutines(k) ==
    /\ component = "current"
    /\ k \in 1..Len(saves)
    /\ saves[k].pc = "setHistory"
    /\ historyStore' = Some(saves[k].history)
    /\ lastOp' = Op("saveWroteHistory", "update")
    /\ saves' = [saves EXCEPT ![k].pc = "getRoutines"]
    /\ io' = [io EXCEPT !.routinesGet = @ + 1]
    /\ SaveStepFrame
    /\ UNCHANGED routinesStore

\* setItem("workoutHistory") resolves; the routines are read when an update was asked for
SaveWroteHistory(k) ==
    /\ component = "current"
    /\ k \in 1..Len(saves)
    /\ saves[k].pc = "setHistory"
    /\ historyStore' = Some(saves[k].history)
    /\ lastOp' = Op("saveWroteHistory", IF saves[k].updateRoutine THEN "update" ELSE "done")
    /\ IF saves[k].updateRoutine
       THEN /\ saves' = [saves EXCEPT ![k].pc = "getRoutines"]
            /\ io' = [io EXCEPT !.routinesGet = @ + 1]
            /\ SaveStepFrame
       ELSE /\ SaveDone(k)
            /\ UNCHANGED <<now, appState, io>>
    /\ UNCHANGED routinesStore

\* getItem("workoutRoutines") resolves: the routine is patched and setItem is called
SaveGotRoutines(k) ==
    /\ k \in 1..Len(saves)
    /\ saves[k].pc = "getRoutines"
    /\ saves' = [saves EXCEPT ![k].pc = "setRoutines",
                              ![k].routines = UpdateRoutines(ReadArray(routinesStore),
                                                             saves[k].routine,
                                                             saves[k].exercises)]
    /\ io' = [io EXCEPT !.routinesSet = @ + 1]
    /\ lastOp' = Op("saveGotRoutines", "read")
    /\ UNCHANGED <<historyStore, routinesStore>>
    /\ SaveStepFrame

\* setItem("workoutRoutines") resolves; the verification read is issued
SaveWroteRoutines(k) ==
    /\ k \in 1..Len(saves)
    /\ saves[k].pc = "setRoutines"
    /\ routinesStore' = Some(saves[k].routines)
    /\ saves' = [saves EXCEPT ![k].pc = "verify"]
    /\ io' = [io EXCEPT !.routinesGet = @ + 1]
    /\ lastOp' = Op("saveWroteRoutines", "written")
    /\ UNCHANGED historyStore
    /\ SaveStepFrame

\* the verification getItem resolves (it only logs)
SaveVerified(k) ==
    /\ k \in 1..Len(saves)
    /\ saves[k].pc = "verify"
    /\ SaveDone(k)
    /\ lastOp' = Op("saveVerified", "done")
    /\ UNCHANGED <<now, appState, storeVars>>

\* a faulty variant of SaveFailed: the session is closed as after a success
SaveFailedClosesSession(k) ==
    /\ saves' = RemoveAt(saves, k)
    /\ lastAlert' = "Error"
    /\ HandleWorkoutClose

\* the catch block of saveWorkoutData: Alert "Error", nothing else
SaveFailed(k) ==
    /\ saves' = RemoveAt(saves, k)
    /\ lastAlert' = "Error"
    /\ UNCHANGED <<exampleVars, sessionVars, derivedVars, timerVars, effectVars, modalVars,
                   prompt, notifications, periodEnd, initPending, resumePending>>

\* a faulty variant of SaveReadHistoryFailed: the unreadable history is taken as
\* empty and the commit goes on to write the new item alone
SaveReadHistoryFailedStartsOver(k) ==
    /\ component = "current"
    /\ k \in 1..Len(saves)
    /\ saves[k].pc = "getHistory"
    /\ saves' = [saves EXCEPT ![k].pc = "setHistory", ![k].history = <<saves[k].workout>>]
    /\ io' = [io EXCEPT !.historySet = @ + 1]
    /\ lastOp' = Op("saveGotHistory", "failed")
    /\ UNCHANGED <<historyStore, routinesStore>>
    /\ SaveStepFrame

\* getItem("workoutHistory") rejects or JSON.parse throws in saveWorkoutData
SaveReadHistoryFailed(k) ==
    /\ component = "current"
    /\ k \in 1..Len(saves)
    /\ saves[k].pc = "getHistory"
    /\ SaveFailed(k)
    /\ lastOp' = Op("saveGotHistory", "failed")
    /\ UNCHANGED <<now, appState, storeVars>>

\* setItem("workoutHistory") rejects in saveWorkoutData
SaveWriteHistoryFailed(k) ==
    /\ component = "current"
    /\ k \in 1..Len(saves)
    /\ saves[k].pc = "setHistory"
    /\ SaveFailed(k)
    /\ lastOp' = Op("saveWroteHistory", "failed")
    /\ UNCHANGED <<now, appState, storeVars>>

\* setItem("workoutRoutines") rejects in saveWorkoutData
SaveWriteRoutinesFailed(k) ==
    /\ k \in 1..Len(saves)
    /\ saves[k].pc = "setRoutines"
    /\ SaveFailed(k)
    /\ lastOp' = Op("saveWroteRoutines", "failed")
    /\ UNCHANGED <<now, appState, storeVars>>

\* ------------------------------------------------------------------------
\* The earlier WorkoutSession (src/components/WorkoutSession.tsx): the
\* exercises are shown one at a time, the rest time is one value for the
\* whole session, and the rest timer is a counter of seconds
\* ------------------------------------------------------------------------
MinRestTime == 30

RestTimeStep == 15

LegacyNewSets(length, reps) ==
    [index \in 1..length |->
        [setNumber |-> index, weight |-> <<>>, reps |-> reps, completed |-> FALSE]]

\* the effect that initializes workoutExercises from the routine
LegacyInitExercises(routine) ==
    [i \in 1..Len(routine.exercises) |->
        [exerciseId   |-> routine.exercises[i].id,
         exerciseName |-> routine.exercises[i].name,
         currentSet   |-> 0,
         sets         |-> LegacyNewSets(
                              OrDefault(routine.exercises[i].sets, DefaultSets),
                              NumberToString(OrDefault(routine.exercises[i].reps,
                                                       DefaultReps)))]]

\* the session is rendered: workoutExercises[currentExerciseIndex] exists
LegacyReady ==
    /\ appState = "active"
    /\ currentScreen = "workout"
    /\ component = "legacy"
    /\ currentExerciseIndex < Len(workoutExercises)

\* handleRoutinePress, when the Example mounts the earlier component
LegacyStartWorkout(i) ==
    /\ appState = "active"
    /\ currentScreen = "home"
    /\ component = "legacy"
    /\ i \in 1..Len(routines)
    /\ selectedRoutine' = Some(routines[i])
    /\ currentScreen' = "workout"
    /\ SessionMountedWith(LegacyInitExercises(routines[i]))
    /\ lastOp' = Op("startWorkout", "mounted")
    /\ UNCHANGED <<now, appState, storeVars, routines, component, formVars, resumePending,
                   initPending, saves, lastAlert>>

\* the timer effect depends on [timerActive, timeRemaining]: its interval is
\* replaced when either changed
LegacyEffectsRerun(active, remaining) ==
    /\ effTimerActive' = active
    /\ effTimerEndTime' = effTimerEndTime
    /\ intervalSince' = IF <<active, remaining>> # <<timerActive, timeRemaining>>
                        THEN IF active /\ remaining > 0 THEN now ELSE 0
                        ELSE intervalSince

LegacyUpdateSet(setIndex, field, value) ==
    /\ LegacyReady
    /\ setIndex \in 0..(Len(workoutExercises[currentExerciseIndex + 1].sets) - 1)
    \* editable={!set.completed}
    /\ ~workoutExercises[currentExerciseIndex + 1].sets[setIndex + 1].completed
    /\ workoutExercises' = ReplaceField(workoutExercises, currentExerciseIndex, setIndex,
                                        field, value)
    /\ lastOp' = Op("updateSet", field)
    /\ UNCHANGED <<now, appState, storeVars, exampleVars, workoutStartTime, currentDuration,
                   restTime, derivedVars, timerVars, effectVars, modalVars, resumePending,
                   initPending, saves, prompt, notifications, periodEnd, lastAlert>>

LegacyMissingData(set) == ~Truthy(set.weight) \/ ~Truthy(set.reps)

LegacyCompleteSet(setIndex) ==
    /\ LegacyReady
    /\ setIndex \in 0..(Len(workoutExercises[currentExerciseIndex + 1].sets) - 1)
    \* the "Complete Set" button is rendered for sets that are not completed
    /\ ~workoutExercises[currentExerciseIndex + 1].sets[setIndex + 1].completed
    /\ IF LegacyMissingData(workoutExercises[currentExerciseIndex + 1].sets[setIndex + 1])
       THEN /\ lastAlert' = "Missing Data"
            /\ lastOp' = OpAt("completeSet", "invalid", currentExerciseIndex, setIndex)
            /\ UNCHANGED <<workoutExercises, timerVars, effectVars, notifications, periodEnd>>
       ELSE /\ workoutExercises' = MarkCompleted(workoutExercises, currentExerciseIndex,
                                                 setIndex)
            /\ timeRemaining' = restTime
            /\ timerActive' = TRUE
            /\ notifications' = 0
            /\ periodEnd' = now + restTime * 1000
            /\ LegacyEffectsRerun(TRUE, restTime)
            /\ lastOp' = OpAt("completeSet", "completed", currentExerciseIndex, setIndex)
            /\ UNCHANGED <<timerEndTime, lastAlert>>
    /\ UNCHANGED <<now, appState, storeVars, exampleVars, workoutStartTime, currentDuration,
                   restTime, derivedVars, modalVars, resumePending, initPending, saves,
                   prompt>>

\* "Skip Rest": setTimerActive(false)
LegacySkipRest ==
    /\ LegacyReady
    /\ timerActive
    /\ timerActive' = FALSE
    /\ periodEnd' = 0
    /\ LegacyEffectsRerun(FALSE, timeRemaining)
    /\ lastOp' = Op("skipRest", "idle")
    /\ UNCHANGED <<now, appState, storeVars, exampleVars, sessionVars, derivedVars,
                   timeRemaining, timerEndTime, modalVars, resumePending, initPending, saves,
                   prompt, notifications, lastAlert>>

\* the "-15" button
LegacyDecreaseRestTime ==
    /\ LegacyReady
    /\ restTime' = Max(MinRestTime, restTime - RestTimeStep)
    /\ lastOp' = Op("restTime", "decreased")
    /\ UNCHANGED <<now, appState, storeVars, exampleVars, workoutExercises, workoutStartTime,
                   currentDuration, derivedVars, timerVars, effectVars, modalVars,
                   resumePending, initPending, saves, prompt, notifications, periodEnd,
                   lastAlert>>

\* the "+15" button
LegacyIncreaseRestTime ==
    /\ LegacyReady
    /\ restTime' = restTime + RestTimeStep
    /\ lastOp' = Op("restTime", "increased")
    /\ UNCHANGED <<now, appState, storeVars, exampleVars, workoutExercises, workoutStartTime,
                   currentDuration, derivedVars, timerVars, effectVars, modalVars,
                   resumePending, initPending, saves, prompt, notifications, periodEnd,
                   lastAlert>>

\* "Previous Exercise", disabled on the first exercise
LegacyPreviousExercise ==
    /\ LegacyReady
    /\ currentExerciseIndex # 0
    /\ currentExerciseIndex' = Max(0, currentExerciseIndex - 1)
    /\ lastOp' = Op("exercise", "previous")
    /\ UNCHANGED <<now, appState, storeVars, exampleVars, sessionVars, derivedVars, timerVars,
                   effectVars, showTimerModal, selectedRestTimeRef, resumePending,
                   initPending, saves, prompt, notifications, periodEnd, lastAlert>>

\* "Next Exercise", disabled on the last exercise
LegacyNextExercise ==
    /\ LegacyReady
    /\ currentExerciseIndex # Len(workoutExercises) - 1
    /\ currentExerciseIndex' = Min(Len(workoutExercises) - 1, currentExerciseIndex + 1)
    /\ lastOp' = Op("exercise", "next")
    /\ UNCHANGED <<now, appState, storeVars, exampleVars, sessionVars, derivedVars, timerVars,
                   effectVars, showTimerModal, selectedRestTimeRef, resumePending,
                   initPending, saves, prompt, notifications, periodEnd, lastAlert>>

\* the interval callback: setTimeRemaining(time => time <= 1 ? 0 : time - 1)
LegacyTick ==
    /\ currentScreen = "workout"
    /\ component = "legacy"
    /\ TickDue
    /\ IF timeRemaining <= 1
       THEN /\ timerActive' = FALSE
            /\ timeRemaining' = 0
            /\ notifications' = notifications + 1
            /\ lastAlert' = "Rest Complete!"
            /\ periodEnd' = 0
            /\ intervalSince' = 0
            /\ lastOp' = Op("tick", "expired")
       ELSE /\ timeRemaining' = timeRemaining - 1
            /\ intervalSince' = now
            /\ lastOp' = Op("tick", "running")
            /\ UNCHANGED <<timerActive, notifications, periodEnd, lastAlert>>
    /\ effTimerActive' = timerActive'
    /\ UNCHANGED <<now, appState, storeVars, exampleVars, sessionVars, derivedVars,
                   timerEndTime, effTimerEndTime, modalVars, resumePending, initPending,
                   saves, prompt>>

\* the history item saveWorkout builds
LegacyBuildWorkout(exercises, routine) == BuildWorkout(exercises, routine)

\* saveWorkout up to its first await
LegacySaveWorkout ==
    /\ LegacyReady
    /\ IF CountIf(FlatSets(workoutExercises, 1), IsCompleted) = 0
       THEN /\ lastAlert' = "No Sets Completed"
            /\ lastOp' = Op("finish", "empty")
            /\ UNCHANGED <<saves, io>>
       ELSE /\ saves' = Append(saves,
                               [pc            |-> "getHistory",
                                updateRoutine |-> FALSE,
                                exercises     |-> workoutExercises,
                                routine       |-> Val(selectedRoutine),
                                workout       |-> LegacyBuildWorkout(workoutExercises,
                                                                     Val(selectedRoutine)),
                                history       |-> <<>>,
                                routines      |-> <<>>])
            /\ io' = [io EXCEPT !.historyGet = @ + 1]
            /\ lastOp' = Op("finish", "save")
            /\ UNCHANGED lastAlert
    /\ UNCHANGED <<now, appState, historyStore, routinesStore, exampleVars, sessionVars,
                   derivedVars, timerVars, effectVars, modalVars, resumePending, initPending,
                   prompt, notifications, periodEnd>>

\* getItem("workoutHistory") resolves: unshift, splice, and setItem is called
LegacySaveGotHistory(k) ==
    /\ component = "legacy"
    /\ k \in 1..Len(saves)
    /\ saves[k].pc = "getHistory"
    /\ saves' = [saves EXCEPT ![k].pc = "setHistory",
                              ![k].history = PrependCapped(ReadArray(historyStore),
                                                           saves[k].workout)]
    /\ io' = [io EXCEPT !.historySet = @ + 1]
    /\ lastOp' = Op("saveGotHistory", "read")
    /\ UNCHANGED <<historyStore, routinesStore>>
    /\ SaveStepFrame

\* setItem("workoutHistory") resolves: "Workout Saved!", onSave(), onClose()
LegacySaveWroteHistory(k) ==
    /\ component = "legacy"
    /\ k \in 1..Len(saves)
    /\ saves[k].pc = "setHistory"
    /\ historyStore' = Some(saves[k].history)
    /\ lastOp' = Op("saveWroteHistory", "done")
    /\ SaveDone(k)
    /\ UNCHANGED <<now, appState, io, routinesStore>>

\* ------------------------------------------------------------------------
\* The Example's routine handlers and NewRoutineForm
\* (src/unnamed/part_000, src/components/NewRoutineForm.tsx lines 178-412)
\* ------------------------------------------------------------------------
WhiteChars == {" "}

RECURSIVE TrimEnd(_)
TrimEnd(str) ==
    IF str # <<>> /\ str[Len(str)] \in WhiteChars
    THEN TrimEnd(SubSeq(str, 1, Len(str) - 1))
    ELSE str

\* a faulty variant of Trim: the text is taken as typed
TrimNothing(str) == str

\* String.prototype.trim
Trim(str) == TrimEnd(SkipWhite(str))

\* arr.filter(P)
RECURSIVE FilterOut(_, _)
\* arr.filter(x => x.id !== id)
FilterOut(arr, id) ==
    IF arr = <<>> THEN <<>>
    ELSE IF arr[1].id = id THEN FilterOut(Tail(arr), id)
    ELSE <<arr[1]>> \o FilterOut(Tail(arr), id)

\* the form is mounted with its existingRoutine prop: useState initial values,
\* then the mount effect copies the routine being edited
FormMounted(existingRoutine) ==
    /\ routineName' = IF IsSome(existingRoutine) THEN Val(existingRoutine).name ELSE <<>>
    /\ selectedExercises' =
          IF IsSome(existingRoutine) THEN Val(existingRoutine).exercises ELSE <<>>

\* the form is gone and its state with it
FormUnmounted ==
    /\ routineName' = <<>>
    /\ selectedExercises' = <<>>

\* what the handlers of the home screen and of the form leave alone
SessionIdle ==
    UNCHANGED <<selectedRoutine, component, sessionVars, derivedVars, timerVars, effectVars,
                modalVars, resumePending, initPending, saves, prompt, notifications, periodEnd>>

OnHome == appState = "active" /\ currentScreen = "home"

OnForm == appState = "active" /\ currentScreen = "form"

\* handleNewRoutinePress
HandleNewRoutinePress ==
    /\ OnHome
    /\ editingRoutine' = None
    /\ currentScreen' = "form"
    /\ FormMounted(None)
    /\ lastOp' = Op("newRoutine", "form")
    /\ SessionIdle
    /\ UNCHANGED <<now, appState, storeVars, routines, loads, deletes, formSaves, lastAlert>>

\* handleRoutineEdit
HandleRoutineEdit(i) ==
    /\ OnHome
    /\ i \in 1..Len(routines)
    /\ editingRoutine' = Some(routines[i])
    /\ currentScreen' = "form"
    /\ FormMounted(Some(routines[i]))
    /\ lastOp' = Op("editRoutine", "form")
    /\ SessionIdle
    /\ UNCHANGED <<now, appState, storeVars, routines, loads, deletes, formSaves, lastAlert>>

\* handleFormClose
HandleFormClose ==
    /\ currentScreen' = "home"
    /\ editingRoutine' = None
    /\ FormUnmounted

\* the form's close button
CloseForm ==
    /\ OnForm
    /\ HandleFormClose
    /\ lastOp' = Op("closeForm", "home")
    /\ SessionIdle
    /\ UNCHANGED <<now, appState, storeVars, routines, loads, deletes, formSaves, lastAlert>>

\* what a handler of the form leaves alone besides the form's own state
FormFrame ==
    /\ SessionIdle
    /\ UNCHANGED <<now, appState, storeVars, routines, currentScreen, editingRoutine, loads,
                   deletes, formSaves, lastAlert>>

\* the routine name TextInput
SetRoutineName(text) ==
    /\ OnForm
    /\ routineName' = text
    /\ lastOp' = Op("setRoutineName", "typed")
    /\ UNCHANGED selectedExercises
    /\ FormFrame

\* the exercise addExercise and addCustomExercise append
NewExercise(exerciseName) ==
    [id   |-> NumberToString(now),
     name |-> exerciseName,
     sets |-> Some(DefaultSets),
     reps |-> Some(DefaultReps)]

\* addExercise: an exercise of the catalogue is picked
AddExercise(exerciseName) ==
    /\ OnForm
    /\ IF \E i \in 1..Len(selectedExercises) : selectedExercises[i].name = exerciseName
       THEN /\ lastOp' = Op("addExercise", "already")
            /\ UNCHANGED selectedExercises
       ELSE /\ lastOp' = Op("addExercise", "added")
            /\ selectedExercises' = Append(selectedExercises, NewExercise(exerciseName))
    /\ UNCHANGED routineName
    /\ FormFrame

\* addCustomExercise, with customExerciseName as typed
AddCustomExercise(customExerciseName) ==
    /\ OnForm
    /\ LET exerciseName == Trim(customExerciseName)
       IN  IF exerciseName = <<>>
           THEN /\ lastOp' = Op("addCustomExercise", "empty")
                /\ UNCHANGED selectedExercises
           ELSE IF \E i \in 1..Len(selectedExercises) :
                      ToLowerCase(selectedExercises[i].name) = ToLowerCase(exerciseName)
           THEN /\ lastOp' = Op("addCustomExercise", "already")
                /\ UNCHANGED selectedExercises
           ELSE /\ lastOp' = Op("addCustomExercise", "added")
                /\ selectedExercises' = Append(selectedExercises, NewExercise(exerciseName))
    /\ UNCHANGED routineName
    /\ FormFrame

\* removeExercise
RemoveExercise(id) ==
    /\ OnForm
    /\ selectedExercises' = FilterOut(selectedExercises, id)
    /\ lastOp' = Op("removeExercise", "removed")
    /\ UNCHANGED routineName
    /\ FormFrame

\* updateExercise(id, field, parseInt(text) || 0), from the Sets or Reps input
UpdateExercise(id, field, value) ==
    /\ OnForm
    /\ selectedExercises' =
          [i \in 1..Len(selectedExercises) |->
              IF selectedExercises[i].id = id
              THEN IF field = "sets"
                   THEN [selectedExercises[i] EXCEPT !.sets = Some(value)]
                   ELSE [selectedExercises[i] EXCEPT !.reps = Some(value)]
              ELSE selectedExercises[i]]
    /\ lastOp' = Op("updateExercise", field)
    /\ UNCHANGED routineName
    /\ FormFrame

\* the routine saveRoutine builds before its first await
BuildRoutine ==
    [id              |-> IF IsSome(editingRoutine) THEN Val(editingRoutine).id
                         ELSE NumberToString(now),
     name            |-> routineName,
     exercisesString |-> ExercisesString(selectedExercises),
     exercises       |-> selectedExercises,
     createdAt       |-> IF IsSome(editingRoutine) THEN Val(editingRoutine).createdAt ELSE now]

\* saveRoutine up to its first await
SaveRoutine ==
    /\ OnForm
    /\ IF Trim(routineName) = <<>>
       THEN /\ lastAlert' = "Error"
            /\ lastOp' = Op("saveRoutine", "noName")
            /\ UNCHANGED <<formSaves, io>>
       ELSE IF Len(selectedExercises) = 0
       THEN /\ lastAlert' = "Error"
            /\ lastOp' = Op("saveRoutine", "noExercises")
            /\ UNCHANGED <<formSaves, io>>
       ELSE /\ formSaves' = Append(formSaves, [pc        |-> "getRoutines",
                                               routine   |-> BuildRoutine,
                                               isEditing |-> IsSome(editingRoutine),
                                               routines  |-> <<>>])
            /\ io' = [io EXCEPT !.routinesGet = @ + 1]
            /\ lastOp' = Op("saveRoutine", "started")
            /\ UNCHANGED lastAlert
    /\ SessionIdle
    /\ UNCHANGED <<now, appState, historyStore, routinesStore, routines, currentScreen,
                   editingRoutine, loads, deletes, routineName, selectedExercises>>

\* a faulty variant of PutRoutine: the routine is pushed even when its id is found
PutRoutineAlwaysPushed(stored, routine, isEditing) == Append(stored, routine)

\* routines[index] = routine when the id is found, routines.push(routine) otherwise
PutRoutine(stored, routine, isEditing) ==
    LET index == FindIndex(stored, LAMBDA r : r.id = routine.id)
    IN  IF isEditing /\ index # 0
        THEN [stored EXCEPT ![index] = routine]
        ELSE Append(stored, routine)

\* what a step of an asynchronous routine operation leaves alone
RoutineStepFrame ==
    /\ SessionIdle
    /\ UNCHANGED <<now, appState, historyStore, routines, currentScreen, editingRoutine,
                   routineName, selectedExercises, lastAlert>>

\* getItem("workoutRoutines") resolves in saveRoutine; setItem is called
SaveRoutineGot(k) ==
    /\ k \in 1..Len(formSaves)
    /\ formSaves[k].pc = "getRoutines"
    /\ formSaves' = [formSaves EXCEPT ![k].pc = "setRoutines",
                                      ![k].routines = PutRoutine(ReadArray(routinesStore),
                                                                 formSaves[k].routine,
                                                                 formSaves[k].isEditing)]
    /\ io' = [io EXCEPT !.routinesSet = @ + 1]
    /\ lastOp' = Op("saveRoutineGot", "read")
    /\ UNCHANGED <<routinesStore, loads, deletes>>
    /\ RoutineStepFrame

\* setItem resolves in saveRoutine: "Success", onSave(), setSearchTerm, onClose()
SaveRoutineWrote(k) ==
    /\ k \in 1..Len(formSaves)
    /\ formSaves[k].pc = "setRoutines"
    /\ routinesStore' = Some(formSaves[k].routines)
    /\ formSaves' = RemoveAt(formSaves, k)
    /\ lastAlert' = "Success"
    /\ loads' = loads + 1
    /\ io' = [io EXCEPT !.routinesGet = @ + 1]
    /\ HandleFormClose
    /\ lastOp' = Op("saveRoutineWrote", "saved")
    /\ SessionIdle
    /\ UNCHANGED <<now, appState, historyStore, routines, deletes>>

\* setItem rejects in saveRoutine: the catch block
SaveRoutineWriteFailed(k) ==
    /\ k \in 1..Len(formSaves)
    /\ formSaves[k].pc = "setRoutines"
    /\ formSaves' = RemoveAt(formSaves, k)
    /\ lastAlert' = "Error"
    /\ lastOp' = Op("saveRoutineWrote", "failed")
    /\ SessionIdle
    /\ UNCHANGED <<now, appState, storeVars, routines, currentScreen, editingRoutine, loads,
                   deletes, routineName, selectedExercises>>

\* getItem resolves in loadRoutines
LoadRoutinesDone ==
    /\ loads > 0
    /\ loads' = loads - 1
    /\ routines' = IF IsSome(routinesStore) THEN Val(routinesStore) ELSE routines
    /\ lastOp' = Op("loadRoutines", "loaded")
    /\ SessionIdle
    /\ UNCHANGED <<now, appState, storeVars, currentScreen, editingRoutine, deletes,
                   routineName, selectedExercises, formSaves, lastAlert>>

\* handleDeleteRoutine up to its first await
HandleDeleteRoutine(i) ==
    /\ OnHome
    /\ i \in 1..Len(routines)
    /\ deletes' = Append(deletes, [pc |-> "getRoutines", routineId |-> routines[i].id,
                                   routines |-> <<>>])
    /\ io' = [io EXCEPT !.routinesGet = @ + 1]
    /\ lastOp' = Op("deleteRoutine", "started")
    /\ UNCHANGED <<routinesStore, loads, formSaves>>
    /\ RoutineStepFrame

\* getItem resolves in handleDeleteRoutine: filter and setItem, or nothing at
\* all when the key is absent
DeleteGot(k) ==
    /\ k \in 1..Len(deletes)
    /\ deletes[k].pc = "getRoutines"
    /\ IF IsSome(routinesStore)
       THEN /\ deletes' = [deletes EXCEPT ![k].pc = "setRoutines",
                                          ![k].routines = FilterOut(Val(routinesStore),
                                                                    deletes[k].routineId)]
            /\ io' = [io EXCEPT !.routinesSet = @ + 1]
            /\ lastOp' = Op("deleteGot", "read")
       ELSE /\ deletes' = RemoveAt(deletes, k)
            /\ lastOp' = Op("deleteGot", "absent")
            /\ UNCHANGED io
    /\ UNCHANGED <<routinesStore, loads, formSaves>>
    /\ RoutineStepFrame

\* setItem resolves in handleDeleteRoutine: loadRoutines()
DeleteWrote(k) ==
    /\ k \in 1..Len(deletes)
    /\ deletes[k].pc = "setRoutines"
    /\ routinesStore' = Some(deletes[k].routines)
    /\ deletes' = RemoveAt(deletes, k)
    /\ loads' = loads + 1
    /\ io' = [io EXCEPT !.routinesGet = @ + 1]
    /\ lastOp' = Op("deleteWrote", "deleted")
    /\ UNCHANGED <<formSaves>>
    /\ RoutineStepFrame

\* ------------------------------------------------------------------------
\* Bounds
\* ------------------------------------------------------------------------
\* AddNewSet is pressed while an exercise has fewer sets than this
MaxSets == 3

\* the clock stops advancing here
MaxNow == 100000

\* a long suspension, in milliseconds
LongStep == 95000

\* sessions are started until this many history items have been written
MaxCommits == 2

\* the stored history of an initialization has at most this many items
MaxHistoryLen == 3

\* ------------------------------------------------------------------------
\* Data: routines as the routine form stores them, history items as
\* saveWorkoutData stores them
\* ------------------------------------------------------------------------
NameSq == <<"S", "q">>

NameSqLower == <<"s", "q">>

NameSqUpper == <<"S", "Q">>

NameBp == <<"B", "p">>

\* what the weight and reps fields are edited to
EditTexts == {<<"5">>, <<".">>}

Exercise(id, name, sets, reps) ==
    [id |-> id, name |-> name, sets |-> Some(sets), reps |-> Some(reps)]

Routine(id, name, exercises) ==
    [id              |-> id,
     name            |-> name,
     exercisesString |-> ExercisesString(exercises),
     exercises       |-> exercises,
     createdAt       |-> 0]

DoneSet(setNumber, weight, reps) ==
    [setNumber |-> setNumber, weight |-> weight, reps |-> reps, completed |-> TRUE]

OpenSet(setNumber, weight, reps) ==
    [setNumber |-> setNumber, weight |-> weight, reps |-> reps, completed |-> FALSE]

WorkoutEx(id, name, sets) ==
    [exerciseId   |-> id,
     exerciseName |-> name,
     currentSet   |-> 0,
     restTime     |-> DefaultRestTime,
     sets         |-> sets]

\* a workout saved at time t
HistoryItem(t, exercises) ==
    [id            |-> NumberToString(t),
     routineName   |-> <<"R">>,
     routineId     |-> "r0",
     exercises     |-> exercises,
     startTime     |-> t,
     endTime       |-> t,
     duration      |-> 0,
     completedSets |-> CountIf(FlatSets(exercises, 1), IsCompleted),
     totalSets     |-> Len(FlatSets(exercises, 1))]

\* two exercises, the second with reps 0 (the form stores 0 for a cleared field)
RoutineS ==
    Routine("rs", <<"S">>, <<Exercise("s1", NameSq, 2, 5), Exercise("s2", NameBp, 1, 0)>>)

\* an exercise stored with sets 0, and one with one set
RoutineA ==
    Routine("ra", <<"A">>, <<Exercise("a1", NameSq, 0, 5), Exercise("a2", NameBp, 1, 10)>>)

\* two exercises whose names differ only in case
RoutineB ==
    Routine("rb", <<"B">>,
            <<Exercise("b1", NameSqLower, 2, 5), Exercise("b2", NameSq, 1, 5)>>)

RoutineT == Routine("rt", <<"T">>, <<Exercise("t1", NameSq, 2, 5)>>)

RoutineL == Routine("rl", <<"L">>, <<Exercise("l1", NameSq, 1, 5)>>)

RoutineI ==
    Routine("ri", <<"I">>,
            <<Exercise("i1", NameSqUpper, 2, 5), Exercise("i2", NameBp, 1, 0)>>)

\* a history that seeds both names with values completeSet accepts
SeedingHistory ==
    <<HistoryItem(-1000,
                  <<WorkoutEx("a1", NameSq, <<DoneSet(1, <<"1", "3", "5">>, <<"8">>)>>),
                    WorkoutEx("a2", NameBp, <<DoneSet(1, <<"6", "0">>, <<"5">>)>>)>>)>>

\* n workouts, the most recent first
OldHistory(n) ==
    [k \in 1..n |->
        HistoryItem(-k * 1000,
                    <<WorkoutEx("s1", NameSq, <<DoneSet(1, <<"5">>, <<"5">>)>>)>>)]

\* the exercises of the history items an initialization may find
HistoryPool ==
    << <<WorkoutEx("h1", NameSq, <<DoneSet(1, <<"1", "3", "5">>, <<"8">>)>>)>>,
       <<WorkoutEx("h2", NameSqLower,
                   <<DoneSet(1, <<"1", "0", "0">>, <<"5">>),
                     DoneSet(2, <<"1", "1", "0">>, <<"6">>),
                     OpenSet(3, <<"1", "2", "0">>, <<"7">>)>>)>>,
       <<WorkoutEx("h3", NameSq, <<OpenSet(1, <<"0">>, <<"5">>)>>),
         WorkoutEx("h4", NameBp, <<DoneSet(1, <<"6", "0">>, <<"5">>)>>)>>,
       <<WorkoutEx("h5", NameBp, <<DoneSet(1, <<"2", "0", "0">>, <<"3">>)>>)>>,
       <<WorkoutEx("h6", NameSqLower, <<OpenSet(1, <<"0">>, <<"5">>)>>),
         WorkoutEx("h7", NameSq, <<DoneSet(1, <<"1", "5", "0">>, <<"4">>)>>)>> >>

\* the history whose k-th most recent item holds the exercises HistoryPool[f[k]]
PoolHistory(f) == [k \in 1..Len(f) |-> HistoryItem(-k * 1000, HistoryPool[f[k]])]

\* ------------------------------------------------------------------------
\* Initial states: the app is on its home screen, nothing is mounted
\* ------------------------------------------------------------------------
Home(comp, history, stored) ==
    /\ now = 0
    /\ appState = "active"
    /\ historyStore = history
    /\ routinesStore = Some(stored)
    /\ io = [historyGet |-> 0, historySet |-> 0, routinesGet |-> 0, routinesSet |-> 0]
    /\ routines = stored
    /\ currentScreen = "home"
    /\ selectedRoutine = None
    /\ component = comp
    /\ editingRoutine = None
    /\ loads = 0
    /\ deletes = <<>>
    /\ routineName = <<>>
    /\ selectedExercises = <<>>
    /\ formSaves = <<>>
    /\ workoutExercises = <<>>
    /\ timerActive = FALSE
    /\ timeRemaining = 0
    /\ timerEndTime = None
    /\ workoutStartTime = 0
    /\ currentDuration = 0
    /\ currentVolume = Num(0)
    /\ completedSets = 0
    /\ restTime = DefaultRestTime
    /\ showTimerModal = FALSE
    /\ currentExerciseIndex = 0
    /\ selectedRestTimeRef = DefaultRestTime
    /\ effTimerActive = FALSE
    /\ effTimerEndTime = None
    /\ intervalSince = 0
    /\ resumePending = FALSE
    /\ initPending = FALSE
    /\ saves = <<>>
    /\ prompt = None
    /\ notifications = 0
    /\ periodEnd = 0
    /\ lastAlert = ""
    /\ lastOp = Op("launch", "home")

\* no save is in flight
Quiet == saves = <<>>

\* no history item has been written since the app was launched
NothingCommitted == io.historySet = 0

SetIndexes == 0..(MaxSets - 1)

ExerciseIndexes == 0..(Len(workoutExercises) - 1)

SaveSteps ==
    \/ SaveGotHistory(1)
    \/ SaveWroteHistory(1)
    \/ SaveGotRoutines(1)
    \/ SaveWroteRoutines(1)
    \/ SaveVerified(1)

\* ------------------------------------------------------------------------
\* Spec: one session of the current component, its sets edited, completed
\* and un-completed, its rest skipped, the workout finished
\* ------------------------------------------------------------------------
Init == \E history \in {None, Some(SeedingHistory)} : Home("current", history, <<RoutineS>>)

Next ==
    \/ NothingCommitted /\ StartWorkout(1)
    \/ InitializeWorkout
    \/ Quiet /\ \E e \in ExerciseIndexes, s \in SetIndexes, v \in EditTexts :
                  \/ UpdateSet(e, s, "weight", v)
                  \/ UpdateSet(e, s, "reps", <<"5">>)
    \/ Quiet /\ \E e \in ExerciseIndexes, s \in SetIndexes : CompleteSet(e, s)
    \/ Quiet /\ SkipRest
    \/ Quiet /\ Finish
    \/ SaveGotHistory(1)
    \/ SaveWroteHistory(1)

Spec == Init /\ [][Next]_vars

\* ------------------------------------------------------------------------
\* SpecCommit: sessions of the current component whose sets are seeded by
\* the history; sets are completed and added, the workout is finished and
\* the decision about the routine is answered
\* ------------------------------------------------------------------------
InitCommit == Home("current", Some(SeedingHistory), <<RoutineA, RoutineB>>)

NextCommit ==
    \/ NothingCommitted /\ \E i \in 1..Len(routines) : StartWorkout(i)
    \/ InitializeWorkout
    \/ Quiet /\ \E e \in ExerciseIndexes, s \in SetIndexes : CompleteSet(e, s)
    \/ Quiet /\ \E e \in ExerciseIndexes :
                  /\ Len(workoutExercises[e + 1].sets) < MaxSets
                  /\ AddNewSet(e)
    \/ Quiet /\ Finish
    \/ \E updateRoutine \in BOOLEAN : AnswerPrompt(updateRoutine)
    \/ SaveSteps

SpecCommit == InitCommit /\ [][NextCommit]_vars

\* ------------------------------------------------------------------------
\* SpecTimer: the rest timer of the current component against the clock,
\* with the app sent to the background and brought back
\* ------------------------------------------------------------------------
InitTimer == Home("current", Some(SeedingHistory), <<RoutineT>>)

\* time passes during a session: a tick period while the app is in the
\* foreground, a long suspension while it is in the background
Elapse ==
    /\ currentScreen = "workout"
    /\ workoutExercises # <<>>
    /\ \E d \in {IF appState = "active" THEN TickPeriod ELSE LongStep} :
           now + d <= MaxNow /\ Advance(d)

NextTimer ==
    \/ StartWorkout(1)
    \/ InitializeWorkout
    \/ \E s \in SetIndexes : CompleteSet(0, s)
    \/ SkipRest
    \/ Tick
    \/ HandleAppStateChange
    \/ FlushEffects
    \/ EventLoopIdle /\ Background
    \/ Foreground
    \/ Elapse

SpecTimer == InitTimer /\ [][NextTimer]_vars

\* ------------------------------------------------------------------------
\* SpecLegacy: the rest timer of the earlier component against the clock
\* ------------------------------------------------------------------------
InitLegacy == Home("legacy", None, <<RoutineL>>)

NextLegacy ==
    \/ LegacyStartWorkout(1)
    \/ now = 0 /\ \E s \in SetIndexes : LegacyUpdateSet(s, "weight", <<"5">>)
    \/ \E s \in SetIndexes : LegacyCompleteSet(s)
    \/ LegacySkipRest
    \/ now = 0 /\ LegacyDecreaseRestTime
    \/ now = 0 /\ restTime < DefaultRestTime /\ LegacyIncreaseRestTime
    \/ LegacyTick
    \/ EventLoopIdle /\ Background
    \/ Foreground
    \/ Elapse

SpecLegacy == InitLegacy /\ [][NextLegacy]_vars

\* ------------------------------------------------------------------------
\* SpecHistory: workouts committed one after the other, by either
\* component, onto an empty, an almost full and a full history
\* ------------------------------------------------------------------------
InitHistory ==
    \E comp \in {"current", "legacy"}, n \in {0, HistoryCap - 1, HistoryCap} :
        Home(comp, IF n = 0 THEN None ELSE Some(OldHistory(n)), <<RoutineS>>)

CanStart == io.historySet < MaxCommits

NextHistory ==
    \/ CanStart /\ StartWorkout(1)
    \/ CanStart /\ LegacyStartWorkout(1)
    \/ InitializeWorkout
    \/ Quiet /\ \E e \in ExerciseIndexes : UpdateSet(e, 0, "weight", <<"5">>)
    \/ Quiet /\ LegacyUpdateSet(0, "weight", <<"5">>)
    \/ Quiet /\ \E e \in ExerciseIndexes : CompleteSet(e, 0)
    \/ Quiet /\ LegacyCompleteSet(0)
    \/ Quiet /\ LegacyNextExercise
    \/ Quiet /\ LegacyPreviousExercise
    \/ Quiet /\ Finish
    \/ Quiet /\ LegacySaveWorkout
    \/ SaveGotHistory(1)
    \/ SaveWroteHistory(1)
    \/ LegacySaveGotHistory(1)
    \/ LegacySaveWroteHistory(1)

SpecHistory == InitHistory /\ [][NextHistory]_vars

\* ------------------------------------------------------------------------
\* SpecInit: a session initialized from every history of at most
\* MaxHistoryLen items drawn from HistoryPool
\* ------------------------------------------------------------------------
InitInit ==
    \E n \in 0..MaxHistoryLen :
        \E f \in [1..n -> 1..Len(HistoryPool)] :
            \E stored \in {<<RoutineI>>, <<RoutineA>>} :
                Home("current", IF n = 0 THEN None ELSE Some(PoolHistory(f)), stored)

NextInit ==
    \/ StartWorkout(1)
    \/ InitializeWorkout

SpecInit == InitInit /\ [][NextInit]_vars

\* ------------------------------------------------------------------------
\* Routine save, edit, delete and back-propagation
\* ------------------------------------------------------------------------
\* the clock of the routine screens stops here
MaxFormNow == 2

\* the form holds at most this many exercises
MaxExercises == 4

\* at most this many writes of the stored routines are started
MaxRoutineWrites == 2

NameRow == <<"R", "w">>

NameDl == <<"D", "l">>

NameOhp == <<"O", "p">>

NamePu == <<"P", "u">>

\* the exercise names the catalogue of the form offers
Catalogue == <<NameSq, NameBp, NameRow, NameDl, NameOhp, NamePu>>

\* a routine as stored by an earlier save of the form
RoutineP ==
    [Routine(<<"r", "p">>, <<"P">>, <<Exercise(<<"p", "1">>, NameSq, 1, 5)>>)
        EXCEPT !.createdAt = -1000]

\* no routine operation is in flight
RoutinesQuiet == formSaves = <<>> /\ deletes = <<>> /\ loads = 0

\* another write of the stored routines may be started
MayWriteRoutines ==
    /\ io.routinesSet + Len(formSaves) + Len(deletes) < MaxRoutineWrites
    /\ Len(formSaves) + Len(deletes) <= 1

\* the next exercise of the catalogue, picked in the catalogue's order
NextPick == Catalogue[Len(selectedExercises) + 1]

InitRoutines == Home("current", Some(SeedingHistory), <<RoutineP>>)

\* the clock has moved since a new routine was last given the time as its id
ClockMoved ==
    /\ \A i \in 1..Len(ReadArray(routinesStore)) :
          ReadArray(routinesStore)[i].id # NumberToString(now)
    /\ \A k \in 1..Len(formSaves) : formSaves[k].routine.id # NumberToString(now)

\* no write of the stored routines has been started
NothingWritten == io.routinesSet = 0

\* the exercises the form is filled with: up to MaxExercises in the first
\* routine that is saved, one in the later ones
FormRoom == IF NothingWritten THEN MaxExercises ELSE 1

NextRoutines ==
    \/ RoutinesQuiet /\ HandleNewRoutinePress
    \/ formSaves = <<>> /\ loads = 0 /\ \E i \in 1..Len(routines) : HandleRoutineEdit(i)
    \/ RoutinesQuiet /\ CloseForm
    \/ RoutinesQuiet /\ routineName = <<>> /\ SetRoutineName(<<"A">>)
    \/ RoutinesQuiet /\ Len(selectedExercises) < FormRoom /\ AddExercise(NextPick)
    \/ RoutinesQuiet /\ Len(selectedExercises) = 1 /\ NothingWritten
                     /\ AddCustomExercise(<<" ">> \o NameSqLower)
    \/ RoutinesQuiet /\ Len(selectedExercises) = MaxExercises
                     /\ RemoveExercise(selectedExercises[1].id)
    \/ RoutinesQuiet /\ Len(selectedExercises) = 1 /\ NothingWritten
                     /\ UpdateExercise(selectedExercises[1].id, "sets", 0)
    \/ MayWriteRoutines /\ ClockMoved /\ SaveRoutine
    \/ \E k \in 1..Len(formSaves) : SaveRoutineGot(k)
    \/ \E k \in 1..Len(formSaves) : SaveRoutineWrote(k)
    \/ LoadRoutinesDone
    \/ MayWriteRoutines /\ \E i \in 1..Len(routines) : HandleDeleteRoutine(i)
    \/ \E k \in 1..Len(deletes) : DeleteGot(k)
    \/ \E k \in 1..Len(deletes) : DeleteWrote(k)
    \/ currentScreen = "form" /\ ~ClockMoved /\ now < MaxFormNow /\ Advance(1)
    \/ RoutinesQuiet /\ io.routinesSet = 0 /\ NothingCommitted /\ StartWorkout(1)
    \/ InitializeWorkout
    \/ Quiet /\ CompleteSet(0, 0)
    \/ Quiet /\ workoutExercises # <<>> /\ Len(workoutExercises[1].sets) < MaxSets /\ AddNewSet(0)
    \/ Quiet /\ Finish
    \/ AnswerPrompt(TRUE)
    \/ SaveSteps

SpecRoutines == InitRoutines /\ [][NextRoutines]_vars

\* ------------------------------------------------------------------------
\* A session with two exercises, their rest times, edits and added sets
\* ------------------------------------------------------------------------
\* the clock of this session stops here
MaxRestNow == 1000

\* the rest time picked in the timer modal
PickedRestTime == 60

\* the texts typed into a weight field
InvalidTexts == {<<>>, <<"0">>}

InitRest == Home("current", Some(SeedingHistory), <<RoutineS>>)

NextRest ==
    \/ NothingCommitted /\ StartWorkout(1)
    \/ InitializeWorkout
    \/ now = 0 /\ ~timerActive /\ OpenTimerModal(1)
    \/ SelectRestTime(PickedRestTime)
    \/ CloseTimerModal
    \/ Quiet /\ now = 0 /\ ~timerActive /\ \E v \in InvalidTexts :
          /\ workoutExercises # <<>>
          /\ UpdateSet(1, Len(workoutExercises[2].sets) - 1, "weight", v)
    \/ Quiet /\ \E e \in ExerciseIndexes, s \in SetIndexes : CompleteSet(e, s)
    \/ Quiet /\ now = 0 /\ workoutExercises # <<>>
             /\ Len(workoutExercises[2].sets) < MaxSets
             /\ AddNewSet(1)
    \/ Tick
    \/ /\ currentScreen = "workout"
       /\ timerActive
       /\ Quiet
       /\ now + TickPeriod <= MaxRestNow
       /\ Advance(TickPeriod)
    \/ Quiet /\ Finish
    \/ AnswerPrompt(FALSE)
    \/ SaveGotHistory(1)
    \/ SaveWroteHistory(1)

SpecRest == InitRest /\ [][NextRest]_vars

\* ------------------------------------------------------------------------
\* Storage writes that fail: a commit and a routine save, each retried
\* ------------------------------------------------------------------------
InitFailure == Home("current", Some(SeedingHistory), <<RoutineP>>)

\* another commit may be started
MayCommit == io.historySet + Len(saves) < MaxCommits

NextFailure ==
    \/ RoutinesQuiet /\ io.historyGet = 0 /\ HandleNewRoutinePress
    \/ RoutinesQuiet /\ io.historyGet = 0 /\ HandleRoutineEdit(1)
    \/ RoutinesQuiet /\ CloseForm
    \/ RoutinesQuiet /\ routineName = <<>> /\ SetRoutineName(<<"A">>)
    \/ RoutinesQuiet /\ Len(selectedExercises) < 2 /\ AddExercise(NextPick)
    \/ MayWriteRoutines /\ ClockMoved /\ SaveRoutine
    \/ \E k \in 1..Len(formSaves) : SaveRoutineGot(k)
    \/ \E k \in 1..Len(formSaves) : SaveRoutineWrote(k)
    \/ \E k \in 1..Len(formSaves) : SaveRoutineWriteFailed(k)
    \/ LoadRoutinesDone
    \/ currentScreen = "form" /\ ~ClockMoved /\ now < MaxFormNow /\ Advance(1)
    \/ RoutinesQuiet /\ io.routinesSet = 0 /\ MayCommit /\ StartWorkout(1)
    \/ InitializeWorkout
    \/ Quiet /\ CompleteSet(0, 0)
    \/ Quiet /\ workoutExercises # <<>> /\ Len(workoutExercises[1].sets) < MaxSets /\ AddNewSet(0)
    \/ Quiet /\ MayCommit /\ Finish
    \/ \E updateRoutine \in BOOLEAN : AnswerPrompt(updateRoutine)
    \/ SaveSteps
    \/ SaveWriteHistoryFailed(1)
    \/ SaveWriteRoutinesFailed(1)

SpecFailure == InitFailure /\ [][NextFailure]_vars

\* ------------------------------------------------------------------------
\* Sessions that are left by Exit or closed by a commit while resting, with
\* time passing afterwards
\* ------------------------------------------------------------------------
\* ticks are followed one by one up to this time
MaxTeardownNow == 2000

InitTeardown == Home("current", Some(SeedingHistory), <<RoutineT>>)

\* time passes, on any screen: a tick period in the foreground, a long
\* suspension in the background
TeardownElapse ==
    /\ now <= MaxTeardownNow
    /\ IF appState = "active"
       THEN now + TickPeriod <= MaxTeardownNow /\ Advance(TickPeriod)
       ELSE Advance(LongStep)

NextTeardown ==
    \/ io.historyGet < MaxCommits /\ StartWorkout(1)
    \/ InitializeWorkout
    \/ Quiet /\ CompleteSet(0, 0)
    \/ Tick
    \/ DurationTick
    \/ HandleAppStateChange
    \/ FlushEffects
    \/ EventLoopIdle /\ Background
    \/ Foreground
    \/ Quiet /\ ExitWorkout
    \/ Quiet /\ Finish
    \/ SaveGotHistory(1)
    \/ SaveWroteHistory(1)
    \/ TeardownElapse

SpecTeardown == InitTeardown /\ [][NextTeardown]_vars

\* ------------------------------------------------------------------------
\* Two stored routines: deletes and edits whose storage calls overlap
\* ------------------------------------------------------------------------
\* a second routine stored by an earlier save of the form
RoutineQ ==
    [Routine(<<"r", "q">>, <<"Q">>, <<Exercise(<<"q", "1">>, NameBp, 2, 8)>>)
        EXCEPT !.createdAt = -500]

InitDelete == Home("current", Some(SeedingHistory), <<RoutineP, RoutineQ>>)

NextDelete ==
    \/ MayWriteRoutines /\ \E i \in 1..Len(routines) : HandleDeleteRoutine(i)
    \/ \E k \in 1..Len(deletes) : DeleteGot(k)
    \/ \E k \in 1..Len(deletes) : DeleteWrote(k)
    \/ LoadRoutinesDone
    \/ formSaves = <<>> /\ loads = 0 /\ \E i \in 1..Len(routines) : HandleRoutineEdit(i)
    \/ RoutinesQuiet /\ CloseForm
    \/ RoutinesQuiet /\ Len(selectedExercises) < 2 /\ AddExercise(NextPick)
    \/ MayWriteRoutines /\ SaveRoutine
    \/ \E k \in 1..Len(formSaves) : SaveRoutineGot(k)
    \/ \E k \in 1..Len(formSaves) : SaveRoutineWrote(k)

SpecDelete == InitDelete /\ [][NextDelete]_vars

\* ------------------------------------------------------------------------
\* A session whose sets are added, also twice within one render, and then
\* committed
\* ------------------------------------------------------------------------
InitSets == Home("current", Some(SeedingHistory), <<RoutineS>>)

NextSets ==
    \/ NothingCommitted /\ StartWorkout(1)
    \/ InitializeWorkout
    \/ Quiet /\ \E e \in ExerciseIndexes :
                  /\ Len(workoutExercises[e + 1].sets) < MaxSets
                  /\ AddNewSet(e)
    \/ Quiet /\ \E e \in ExerciseIndexes :
                  /\ Len(workoutExercises[e + 1].sets) + 1 < MaxSets
                  /\ AddNewSetTwice(e)
    \/ Quiet /\ \E e \in ExerciseIndexes, s \in SetIndexes : CompleteSet(e, s)
    \/ Quiet /\ Finish
    \/ \E updateRoutine \in BOOLEAN : AnswerPrompt(updateRoutine)
    \/ SaveSteps

SpecSets == InitSets /\ [][NextSets]_vars

\* ------------------------------------------------------------------------
\* The routine form: names typed, exercises picked, typed and removed, and
\* Save pressed on whatever the form holds
\* ------------------------------------------------------------------------
\* the form holds at most this many exercises here
MaxPicked == 3

\* the texts typed into the routine name field
NameTexts == {<<>>, <<" ">>, <<" ", " ">>, <<"A">>}

\* the texts typed into the custom exercise field
CustomTexts == {<<" ">>, <<" ">> \o NameSqLower \o <<" ">>, NameSqUpper, NameRow}

InitForm == Home("current", Some(SeedingHistory), <<RoutineP>>)

\* the clock has moved since the last exercise of the form was given the
\* time as its id
PickedEarlier ==
    \A i \in 1..Len(selectedExercises) : selectedExercises[i].id # NumberToString(now)

NextForm ==
    \/ RoutinesQuiet /\ NothingWritten /\ HandleNewRoutinePress
    \/ RoutinesQuiet /\ NothingWritten /\ HandleRoutineEdit(1)
    \/ RoutinesQuiet /\ CloseForm
    \/ RoutinesQuiet /\ \E text \in NameTexts : text # routineName /\ SetRoutineName(text)
    \/ RoutinesQuiet /\ Len(selectedExercises) < MaxPicked /\ PickedEarlier
                     /\ \E exerciseName \in {NameSq, NameBp} : AddExercise(exerciseName)
    \/ RoutinesQuiet /\ Len(selectedExercises) < MaxPicked /\ PickedEarlier
                     /\ \E text \in CustomTexts : AddCustomExercise(text)
    \/ RoutinesQuiet /\ \E i \in 1..Len(selectedExercises) :
                           RemoveExercise(selectedExercises[i].id)
    \/ MayWriteRoutines /\ NothingWritten /\ SaveRoutine
    \/ \E k \in 1..Len(formSaves) : SaveRoutineGot(k)
    \/ \E k \in 1..Len(formSaves) : SaveRoutineWrote(k)
    \/ LoadRoutinesDone
    \/ currentScreen = "form" /\ ~PickedEarlier /\ now < MaxFormNow /\ Advance(1)

SpecForm == InitForm /\ [][NextForm]_vars

\* ------------------------------------------------------------------------
\* The stored history cannot be read: at the start of a session, and in a
\* commit
\* ------------------------------------------------------------------------
InitUnreadable ==
    \E stored \in {<<RoutineS>>, <<RoutineT>>} :
        Home("current", Some(SeedingHistory), stored)

\* another read of the stored history may be started
MayRead == io.historyGet <= MaxCommits

NextUnreadable ==
    \/ NothingCommitted /\ MayRead /\ StartWorkout(1)
    \/ InitializeWorkout
    \/ InitializeWorkoutFailed
    \/ Quiet /\ \E e \in ExerciseIndexes, s \in SetIndexes : CompleteSet(e, s)
    \/ Quiet /\ workoutExercises # <<>> /\ Len(workoutExercises[1].sets) < MaxSets /\ AddNewSet(0)
    \/ Quiet /\ MayRead /\ Finish
    \/ MayRead /\ \E updateRoutine \in BOOLEAN : AnswerPrompt(updateRoutine)
    \/ SaveReadHistoryFailed(1)
    \/ SaveSteps

SpecUnreadable == InitUnreadable /\ [][NextUnreadable]_vars

\* ------------------------------------------------------------------------
\* One session committed more than once: Finish pressed while a commit is in
\* flight, and again after a commit has failed on the routines
\* ------------------------------------------------------------------------
InitRetry == Home("current", Some(SeedingHistory), <<RoutineT>>)

\* the one session of this specification has not been started
NoSessionYet == io.historyGet = 0

NextRetry ==
    \/ NoSessionYet /\ StartWorkout(1)
    \/ InitializeWorkout
    \/ Quiet /\ \E s \in SetIndexes : CompleteSet(0, s)
    \/ Quiet /\ workoutExercises # <<>> /\ Len(workoutExercises[1].sets) < MaxSets /\ AddNewSet(0)
    \/ MayCommit /\ prompt = None /\ Finish
    \/ MayCommit /\ \E updateRoutine \in BOOLEAN : AnswerPrompt(updateRoutine)
    \/ SaveSteps
    \/ SaveWriteRoutinesFailed(1)

SpecRetry == InitRetry /\ [][NextRetry]_vars

\* ------------------------------------------------------------------------
\* Properties
\* ------------------------------------------------------------------------
\* the set a handler is called on, by its zero-based indexes
SetAt(exercises, exerciseIndex, setIndex) == exercises[exerciseIndex + 1].sets[setIndex + 1]

\* C1: completeSet is a toggle. Called on an uncompleted set whose weight and
\* reps are valid it marks the set completed and starts the rest timer for the
\* exercise's rest time; called on a completed set it clears the completed
\* flag of that set, leaves every other part of the session as it was (other
\* sets, currentSet, rest durations) and leaves the rest timer alone.
C1_CompleteSetToggles ==
    [][\A e \in ExerciseIndexes : \A s \in 0..(Len(workoutExercises[e + 1].sets) - 1) :
        (lastOp'.op = "completeSet" /\ lastOp'.at = <<e, s>>) =>
            LET set == SetAt(workoutExercises, e, s)
            IN  /\ (~set.completed /\ ~MissingData(set)) =>
                      /\ SetAt(workoutExercises', e, s).completed
                      /\ timerActive'
                      /\ timeRemaining' = workoutExercises[e + 1].restTime
                      /\ timerEndTime' = Some(now + workoutExercises[e + 1].restTime * 1000)
                /\ set.completed =>
                      /\ workoutExercises' =
                            [workoutExercises EXCEPT ![e + 1].sets[s + 1].completed = FALSE]
                      /\ UNCHANGED <<timerVars, restTime, notifications, periodEnd>>
      ]_vars

\* C1 witness: a set completed a moment ago has been un-completed by a second
\* call while the rest timer the first call started is still running
C1_SecondCallMade ==
    /\ lastOp.op = "completeSet"
    /\ lastOp.at = <<0, 0>>
    /\ ~SetAt(workoutExercises, 0, 0).completed
    /\ ~MissingData(SetAt(workoutExercises, 0, 0))
    /\ timerActive
    /\ completedSets = 0

\* parse, with every string that is not a number read as 0
ParseOrZero(str) == IF ParseFloat(str).nan THEN Num(0) ELSE ParseFloat(str)

RECURSIVE TolerantVolume(_)
\* the sum of parse(weight) * parse(reps) over the completed sets
TolerantVolume(sets) ==
    IF sets = <<>> THEN Num(0)
    ELSE LET set == sets[Len(sets)]
             before == TolerantVolume(SubSeq(sets, 1, Len(sets) - 1))
         IN  IF set.completed
             THEN NumAdd(before, NumMul(ParseOrZero(set.weight), ParseOrZero(set.reps)))
             ELSE before

\* C2: in every state of a session, currentVolume is the sum over the completed
\* sets of parse(weight) * parse(reps), where a string that is not a number
\* parses to 0 and so contributes nothing.
C2_VolumeToleratesUnparseable ==
    (currentScreen = "workout" /\ workoutExercises # <<>>) =>
        currentVolume = TolerantVolume(FlatSets(workoutExercises, 1))

\* C3: a running period of the rest timer gives at most one "rest complete"
\* notification, and none when it is ended by Skip Rest.
C3_OneNotificationPerPeriod ==
    /\ notifications <= 1
    /\ (lastOp.op = "skipRest" => notifications = 0)

\* C4: while the rest timer runs, the remaining time a tick or a resume leaves
\* on display is max(0, end of the period - now) in whole seconds, read from the
\* clock, whatever number of ticks were missed.
C4_RemainingFromClock ==
    [][(/\ lastOp'.op \in {"tick", "resume"}
        /\ timeRemaining' # timeRemaining
        /\ timerActive') =>
            timeRemaining' = Remaining(periodEnd', now')
      ]_vars

\* C5: every write of the workout history puts the new item first, keeps the
\* earlier items in their order, holds at most 100 items by dropping the last
\* ones, and leaves the history ordered most recent first.
C5_HistoryPrependedAndCapped ==
    [][historyStore' # historyStore =>
        LET old == ReadArray(historyStore)
            new == ReadArray(historyStore')
        IN  /\ saves # <<>>
            /\ Len(new) = Min(Len(old) + 1, HistoryCap)
            /\ new[1] = saves[1].workout
            /\ \A i \in 2..Len(new) : new[i] = old[i - 1]
            /\ \A i \in 1..(Len(new) - 1) : new[i].endTime >= new[i + 1].endTime
      ]_vars

\* C5 witness: two commits have been written onto a history that was full or one
\* short of it; it holds 100 items, the new ones first, and the oldest is gone
C5_OldestDropped ==
    /\ io.historySet >= 1
    /\ saves = <<>>
    /\ lastAlert = "Workout Saved!"
    /\ Len(ReadArray(historyStore)) = HistoryCap
    /\ ReadArray(historyStore)[2].endTime = 0
    /\ ReadArray(historyStore)[HistoryCap].endTime >= -((HistoryCap - 2) * 1000)

\* C6: Finish on a session without a completed set shows "No Sets Completed"
\* and does nothing else: no storage read or write, no save started, no
\* "Update Routine?" question, the session unchanged and still open.
C6_EmptyWorkoutRefused ==
    [][(/\ lastOp'.op = "finish"
        /\ \A i \in 1..Len(workoutExercises) :
              \A j \in 1..Len(workoutExercises[i].sets) :
                  ~workoutExercises[i].sets[j].completed) =>
            /\ lastAlert' = "No Sets Completed"
            /\ UNCHANGED <<storeVars, saves, prompt, exampleVars, sessionVars, derivedVars,
                           timerVars, modalVars>>
      ]_vars

\* C6 witness: Finish was refused on the open session, nothing read or saved
C6_RefusedOnOpenSession ==
    /\ lastOp = Op("finish", "empty")
    /\ lastAlert = "No Sets Completed"
    /\ currentScreen = "workout"
    /\ workoutExercises # <<>>
    /\ saves = <<>>
    /\ io.historyGet = 1

\* the sets a routine exercise is configured with, 3 when it has none
ConfiguredSets(routineEx) == IF IsSome(routineEx.sets) THEN Val(routineEx.sets) ELSE DefaultSets

\* the routine exercise after back-propagation from the session exercise of
\* the same name, compared without case
BackPropagated(routineEx, exercises) ==
    LET i == FindIndex(exercises,
                       LAMBDA wEx : ToLowerCase(wEx.exerciseName) = ToLowerCase(routineEx.name))
    IN  IF i # 0 /\ Len(exercises[i].sets) > ConfiguredSets(routineEx)
        THEN [routineEx EXCEPT !.sets = Some(Len(exercises[i].sets))]
        ELSE routineEx

\* C7: a write of the routines by a commit with updateRoutine gives every
\* exercise of the session's routine whose session exercise has more sets than
\* it is configured with the session's number of sets, keeps the sets of its
\* other exercises, keeps every id, name, reps and position, and keeps the
\* other routines.
C7_BackPropagation ==
    [][routinesStore' # routinesStore =>
        LET old == ReadArray(routinesStore)
            new == ReadArray(routinesStore')
            task == saves[1]
        IN  /\ Len(new) = Len(old)
            /\ \A r \in 1..Len(old) :
                  IF old[r].id = task.routine.id
                  THEN /\ Len(new[r].exercises) = Len(old[r].exercises)
                       /\ \A x \in 1..Len(old[r].exercises) :
                             new[r].exercises[x] =
                                 BackPropagated(old[r].exercises[x], task.exercises)
                  ELSE new[r] = old[r]
      ]_vars

\* C8: a save that was not asked to update the routine (Finish with no exercise
\* beyond its plan, or "No, just this workout") neither reads nor writes the
\* stored routines, whatever sets were added in the session.
C8_SaveOnlyLeavesRoutines ==
    [][/\ (lastOp'.op = "finish" /\ saves' # saves) => ~saves'[Len(saves')].updateRoutine
       /\ (lastOp' = Op("answer", "no") /\ saves' # saves) => ~saves'[Len(saves')].updateRoutine
       /\ (saves = <<>> \/ ~saves[1].updateRoutine) =>
             /\ routinesStore' = routinesStore
             /\ io'.routinesSet = io.routinesSet
             /\ io'.routinesGet = io.routinesGet
      ]_vars

\* C8 witness: a workout with a set added beyond the plan has been saved with
\* "No, just this workout" and the routines were never read or written
C8_SavedWithoutUpdate ==
    /\ lastOp = Op("saveWroteHistory", "done")
    /\ currentScreen = "home"
    /\ io.routinesSet = 0
    /\ io.routinesGet = 0
    /\ routinesStore = Some(<<RoutineA, RoutineB>>)
    /\ LET workout == ReadArray(historyStore)[1]
       IN  /\ workout.routineId = RoutineB.id
           /\ Len(workout.exercises[1].sets) > Val(RoutineB.exercises[1].sets)

\* the first item of the history with an exercise of that name, 0 if none
FirstMatchingItem(history, exercise) ==
    FindIndex(history,
              LAMBDA workout :
                  \E i \in 1..Len(workout.exercises) :
                      ToLowerCase(workout.exercises[i].exerciseName) = ToLowerCase(exercise.name))

\* the weight and reps of a new session's sets when only the most recent item
\* with a matching name is consulted
SeedFromFirstMatch(history, exercise) ==
    LET m == FirstMatchingItem(history, exercise)
        seed == IF m = 0 THEN None ELSE SeedInWorkout(history[m], exercise)
    IN  IF IsSome(seed) THEN Val(seed)
        ELSE [weight |-> <<"0">>,
              reps   |-> NumberToString(OrDefault(exercise.reps, DefaultReps))]

\* C9: initialize takes the seed of an exercise from the most recent history
\* item with an exercise of a matching name only; when that item has no
\* completed set with weight and reps the defaults are used, and no older item
\* is consulted.
C9_OnlyMostRecentMatch ==
    lastOp.op = "initialize" =>
        \A x \in 1..Len(workoutExercises) :
            LET expected == SeedFromFirstMatch(ReadArray(historyStore),
                                               Val(selectedRoutine).exercises[x])
            IN  \A j \in 1..Len(workoutExercises[x].sets) :
                    /\ workoutExercises[x].sets[j].weight = expected.weight
                    /\ workoutExercises[x].sets[j].reps = expected.reps

\* the items of the history whose first exercise of a matching name has a
\* completed set with weight and reps
SeedingItems(history, exercise) ==
    {m \in 1..Len(history) :
        \E i \in 1..Len(history[m].exercises) :
            LET ex == history[m].exercises[i]
            IN  /\ ToLowerCase(ex.exerciseName) = ToLowerCase(exercise.name)
                /\ \A h \in 1..(i - 1) :
                      ToLowerCase(history[m].exercises[h].exerciseName)
                          # ToLowerCase(exercise.name)
                /\ \E k \in 1..Len(ex.sets) :
                      ex.sets[k].completed /\ ex.sets[k].weight # <<>> /\ ex.sets[k].reps # <<>>}

\* the last completed set with weight and reps of the exercise of a matching
\* name in a history item
LastSeedingSet(workout, exercise) ==
    LET i == CHOOSE i \in 1..Len(workout.exercises) :
                 /\ ToLowerCase(workout.exercises[i].exerciseName) = ToLowerCase(exercise.name)
                 /\ \A h \in 1..(i - 1) :
                       ToLowerCase(workout.exercises[h].exerciseName)
                           # ToLowerCase(exercise.name)
        sets == workout.exercises[i].sets
        k == CHOOSE k \in 1..Len(sets) :
                 /\ sets[k].completed /\ sets[k].weight # <<>> /\ sets[k].reps # <<>>
                 /\ \A l \in (k + 1)..Len(sets) :
                       ~(sets[l].completed /\ sets[l].weight # <<>> /\ sets[l].reps # <<>>)
    IN  sets[k]

ConfiguredReps(routineEx) == IF IsSome(routineEx.reps) THEN Val(routineEx.reps) ELSE DefaultReps

\* C11: initialize builds one session exercise per routine exercise, in the
\* routine's order, with as many sets as the exercise is configured with (3
\* only when it has no sets value), every set uncompleted and numbered from 1,
\* currentSet 0, and, when there is no history, weight "0" and the configured
\* reps (10 only when it has no reps value).
C11_SetsAsConfigured ==
    lastOp.op = "initialize" =>
        LET planned == Val(selectedRoutine).exercises
        IN  /\ Len(workoutExercises) = Len(planned)
            /\ \A x \in 1..Len(planned) :
                  LET w == workoutExercises[x]
                  IN  /\ w.exerciseId = planned[x].id
                      /\ w.exerciseName = planned[x].name
                      /\ w.currentSet = 0
                      /\ Len(w.sets) = ConfiguredSets(planned[x])
                      /\ \A j \in 1..Len(w.sets) :
                            /\ w.sets[j].setNumber = j
                            /\ ~w.sets[j].completed
                            /\ ReadArray(historyStore) = <<>> =>
                                  /\ w.sets[j].weight = <<"0">>
                                  /\ w.sets[j].reps = NumberToString(ConfiguredReps(planned[x]))

RECURSIVE NamesJoined(_)
\* the names of the exercises, each but the last followed by ", "
NamesJoined(exercises) ==
    IF exercises = <<>> THEN <<>>
    ELSE IF Len(exercises) = 1 THEN exercises[1].name
    ELSE exercises[1].name \o <<",", " ">> \o NamesJoined(Tail(exercises))

\* the summary derived from the exercises of a routine
DerivedSummary(exercises) ==
    IF Len(exercises) <= 3 THEN NamesJoined(exercises)
    ELSE NamesJoined(SubSeq(exercises, 1, 3)) \o <<".", ".", ".">>

\* C12: every stored routine has a summary string equal to the summary derived
\* from its exercises: the names joined by ", " when there are at most 3, the
\* first 3 names joined by ", " and then "..." when there are more.
C12_SummaryIsDerived ==
    \A i \in 1..Len(ReadArray(routinesStore)) :
        ReadArray(routinesStore)[i].exercisesString =
            DerivedSummary(ReadArray(routinesStore)[i].exercises)

\* C12 witness: the form has stored a routine of four exercises, its summary
\* ending in "..."
C12_LongRoutineStored ==
    /\ lastOp = Op("saveRoutineWrote", "saved")
    /\ \E i \in 1..Len(ReadArray(routinesStore)) :
          LET r == ReadArray(routinesStore)[i]
          IN  /\ Len(r.exercises) = 4
              /\ SubSeq(r.exercisesString, Len(r.exercisesString) - 2,
                        Len(r.exercisesString)) = <<".", ".", ".">>

\* C13: a routine save that was given an existing id and finds it in the
\* stored collection replaces that routine at its position, keeping its id and
\* createdAt and every other routine; in every other case the saved routine is
\* appended with an id that is newly assigned and a createdAt of the time of
\* the save.
C13_SaveReplacesOrAppends ==
    [][\A k \in 1..Len(formSaves) :
        (/\ Len(formSaves') = Len(formSaves)
         /\ formSaves[k].pc = "getRoutines"
         /\ formSaves'[k].pc = "setRoutines") =>
            LET old == ReadArray(routinesStore)
                new == formSaves'[k].routines
                saved == formSaves[k].routine
                found == /\ formSaves[k].isEditing
                         /\ \E i \in 1..Len(old) : old[i].id = saved.id
            IN  IF found
                THEN LET at == CHOOSE i \in 1..Len(old) :
                                   /\ old[i].id = saved.id
                                   /\ \A j \in 1..(i - 1) : old[j].id # saved.id
                     IN  /\ Len(new) = Len(old)
                         /\ new[at].id = old[at].id
                         /\ new[at].createdAt = old[at].createdAt
                         /\ new[at].name = saved.name
                         /\ new[at].exercises = saved.exercises
                         /\ \A i \in 1..Len(old) : i # at => new[i] = old[i]
                ELSE /\ Len(new) = Len(old) + 1
                     /\ \A i \in 1..Len(old) : new[i] = old[i]
                     /\ new[Len(new)].name = saved.name
                     /\ new[Len(new)].exercises = saved.exercises
                     /\ new[Len(new)].createdAt \in 0..now
                     /\ new[Len(new)].id = NumberToString(new[Len(new)].createdAt)
      ]_vars

RefusedTexts == {<<>>, <<"0">>}

\* C15: completeSet on an uncompleted set whose weight or reps is "" or "0"
\* shows the "Missing Data" alert and changes nothing: the set stays
\* uncompleted, currentSet and every other set are as they were, the derived
\* totals are as they were, and the rest timer is neither started nor
\* restarted (a running timer keeps its end timestamp and its period).
C15_InvalidCompleteSetChangesNothing ==
    [][\A e \in ExerciseIndexes : \A s \in 0..(Len(workoutExercises[e + 1].sets) - 1) :
        LET set == SetAt(workoutExercises, e, s)
        IN  ( /\ lastOp'.op = "completeSet"
              /\ lastOp'.at = <<e, s>>
              /\ now' = now
              /\ ~set.completed
              /\ (set.weight \in RefusedTexts \/ set.reps \in RefusedTexts) ) =>
                /\ lastAlert' = "Missing Data"
                /\ UNCHANGED <<workoutExercises, derivedVars, timerVars, restTime,
                               notifications, periodEnd>>
      ]_vars

\* C15 witness: completeSet has just refused a set with an empty weight while
\* the rest timer started earlier is running, and the timer still ends when
\* it was going to end
C15_RefusedWhileResting ==
    /\ lastOp.op = "completeSet"
    /\ lastOp.res = "invalid"
    /\ lastAlert = "Missing Data"
    /\ Len(lastOp.at) = 2
    /\ SetAt(workoutExercises, lastOp.at[1], lastOp.at[2]).weight = <<>>
    /\ ~SetAt(workoutExercises, lastOp.at[1], lastOp.at[2]).completed
    /\ timerActive
    /\ now > 0
    /\ timerEndTime = Some(periodEnd)
    /\ periodEnd < now + workoutExercises[lastOp.at[1] + 1].restTime * 1000

\* C16: a successful completeSet(exerciseIndex, setIndex), one on an
\* uncompleted set with valid weight and reps, marks exactly that set
\* completed, sets that exercise's currentSet to
\* min(setIndex + 1, sets.length - 1), leaves every other exercise and set as
\* it was, and makes the rest timer run until now + that exercise's own rest
\* time, replacing any running period; the other exercises' rest times and the
\* default rest time play no part.
C16_CompleteSetStartsOwnRest ==
    [][\A e \in ExerciseIndexes : \A s \in 0..(Len(workoutExercises[e + 1].sets) - 1) :
        LET set == SetAt(workoutExercises, e, s)
            exercise == workoutExercises[e + 1]
        IN  ( /\ lastOp'.op = "completeSet"
              /\ lastOp'.at = <<e, s>>
              /\ now' = now
              /\ ~set.completed
              /\ set.weight \notin RefusedTexts
              /\ set.reps \notin RefusedTexts ) =>
                /\ workoutExercises' =
                      [workoutExercises EXCEPT
                          ![e + 1].currentSet = Min(s + 1, Len(exercise.sets) - 1),
                          ![e + 1].sets[s + 1].completed = TRUE]
                /\ timerActive'
                /\ timerEndTime' = Some(now + exercise.restTime * 1000)
                /\ timeRemaining' = exercise.restTime
                /\ periodEnd' = now + exercise.restTime * 1000
                /\ restTime' = restTime
      ]_vars

\* C16 witness: a set of the first exercise has just been completed while an
\* earlier rest period had time left; the timer now runs for the first
\* exercise's rest time, which is not the second exercise's
C16_OwnRestReplacedPeriod ==
    /\ lastOp.op = "completeSet"
    /\ lastOp.res = "completed"
    /\ lastOp.at = <<0, 1>>
    /\ SetAt(workoutExercises, 0, 0).completed
    /\ SetAt(workoutExercises, 0, 1).completed
    /\ workoutExercises[1].currentSet = Min(2, Len(workoutExercises[1].sets) - 1)
    /\ now > 0
    /\ now < workoutExercises[1].restTime * 1000
    /\ timerActive
    /\ timerEndTime = Some(now + workoutExercises[1].restTime * 1000)
    /\ workoutExercises[1].restTime # workoutExercises[2].restTime

\* C17: addNewSet(exerciseIndex) appends exactly one set to that exercise and
\* changes nothing else: the new set has setNumber = previous length + 1, is
\* not completed, and has the weight and reps of the previously last set
\* whatever their values; "0" and "10" are used only when the exercise has no
\* set.
C17_NewSetCopiesLastSet ==
    [][\A e \in ExerciseIndexes :
        LET exercise == workoutExercises[e + 1]
            length == Len(exercise.sets)
        IN  ( /\ lastOp'.op = "addNewSet"
              /\ lastOp'.at = <<e, length>>
              /\ now' = now
              /\ Len(workoutExercises'[e + 1].sets) = length + 1 ) =>
                workoutExercises' =
                    [workoutExercises EXCEPT ![e + 1].sets =
                        Append(@, [setNumber |-> length + 1,
                                   weight    |-> IF length = 0 THEN <<"0">>
                                                 ELSE exercise.sets[length].weight,
                                   reps      |-> IF length = 0 THEN <<"1", "0">>
                                                 ELSE exercise.sets[length].reps,
                                   completed |-> FALSE])]
      ]_vars

\* the number of sets with completed = true across all exercises
CompletedCount(exercises) ==
    Cardinality({p \in (1..Len(exercises)) \X (1..MaxSets) :
                    /\ p[2] <= Len(exercises[p[1]].sets)
                    /\ exercises[p[1]].sets[p[2]].completed})

\* C20: after every updateSet, completeSet and addNewSet the live completedSets
\* is the number of sets with completed = true across all exercises, and a
\* commit started at that moment writes that same number as the completedSets
\* of its history item.
C20_LiveCountIsCommittedCount ==
    [][ /\ completedSets' = CompletedCount(workoutExercises')
        /\ Len(saves') > Len(saves) =>
              /\ saves'[Len(saves')].workout.completedSets = completedSets
              /\ saves'[Len(saves')].workout.completedSets = CompletedCount(workoutExercises)
      ]_vars

\* C20 witness: a commit is under way for a session in which two sets were
\* completed, a set was added and a set is left uncompleted with an empty
\* weight; the history item carries the live count
C20_CommitCarriesLiveCount ==
    /\ saves # <<>>
    /\ saves[1].workout.completedSets = completedSets
    /\ completedSets = 2
    /\ Len(FlatSets(workoutExercises, 1)) > 3
    /\ \E e \in ExerciseIndexes : \E s \in 1..Len(workoutExercises[e + 1].sets) :
          /\ ~workoutExercises[e + 1].sets[s].completed
          /\ workoutExercises[e + 1].sets[s].weight = <<>>

\* C18: when a storage write fails during a commit (the history write or the
\* routine write) or during a routine save, an "Error" alert is shown, the
\* in-memory session (workoutExercises, start time, totals, timer) or the
\* form's state (name, exercises) is what it was before, and the session or
\* the form, open when the write failed, stays open.
C18_WriteFailureLeavesStateOpen ==
    [][ /\ ( /\ lastOp'.res = "failed"
             /\ lastOp'.op \in {"saveWroteHistory", "saveWroteRoutines"}
             /\ Len(saves') < Len(saves)
             /\ currentScreen = "workout" ) =>
                /\ lastAlert' = "Error"
                /\ currentScreen' = "workout"
                /\ UNCHANGED <<sessionVars, derivedVars, timerVars, modalVars,
                               selectedRoutine, currentScreen>>
        /\ ( /\ lastOp'.res = "failed"
             /\ lastOp'.op = "saveRoutineWrote"
             /\ Len(formSaves') < Len(formSaves)
             /\ currentScreen = "form" ) =>
                /\ lastAlert' = "Error"
                /\ currentScreen' = "form"
                /\ UNCHANGED <<routineName, selectedExercises, editingRoutine, currentScreen>>
      ]_vars

\* C18 witness: the routine write of a commit has just failed, after its
\* history write went through; the session is open with its completed set
\* and its added sets
C18_RoutineWriteFailedInCommit ==
    /\ lastOp = Op("saveWroteRoutines", "failed")
    /\ lastAlert = "Error"
    /\ currentScreen = "workout"
    /\ saves = <<>>
    /\ io.historySet = 1
    /\ completedSets = 1
    /\ Len(workoutExercises[1].sets) > 1

\* C19: once the session is torn down, by Exit or by the close that follows a
\* commit, no rest-timer tick, duration tick or foreground-resume callback of
\* it runs again: while no session is open no session state changes, no
\* "rest complete" notification is fired and no "Rest Complete!" alert is
\* shown, also when the rest timer was running at the teardown.
C19_NoCallbackAfterTeardown ==
    [][ (currentScreen = "home" /\ currentScreen' = "home") =>
            /\ UNCHANGED <<sessionVars, derivedVars, timerVars, notifications, periodEnd>>
            /\ lastAlert' # lastAlert => lastAlert' # "Rest Complete!"
            /\ lastOp' # lastOp => lastOp'.op \notin {"tick", "resume"}
      ]_vars

\* C19 witness: the session was left by Exit while its rest timer was running,
\* and the time at which that rest would have ended has passed since
C19_RestEndPassedAfterExit ==
    /\ currentScreen = "home"
    /\ lastOp = Op("exit", "resting")
    /\ appState = "active"
    /\ now >= LongStep
    /\ notifications = 0
    /\ lastAlert # "Rest Complete!"

\* the routines of a collection whose id is not the given one, in their order
OtherRoutines(stored, id) == SelectSeq(stored, LAMBDA routine : routine.id # id)

\* C21: delete(id) removes from the stored collection exactly the routines
\* whose id is id and keeps every other routine, with its content and in its
\* order; when no routine has that id the stored collection is what it was;
\* no error is reported.
C21_DeleteRemovesExactlyThatId ==
    [][\A k \in 1..Len(deletes) :
        ( /\ deletes[k].pc = "setRoutines"
          /\ deletes' = RemoveAt(deletes, k)
          /\ lastOp' = Op("deleteWrote", "deleted") ) =>
            /\ routinesStore' =
                  Some(OtherRoutines(ReadArray(routinesStore), deletes[k].routineId))
            /\ lastAlert' = lastAlert
      ]_vars

\* the sets of every exercise are numbered 1, 2, 3, ... in their order
NumberedInOrder(exercises) ==
    \A e \in 1..Len(exercises) : \A i \in 1..Len(exercises[e].sets) :
        exercises[e].sets[i].setNumber = i

\* C22: in every session state and in every stored history item the sets of
\* each exercise are numbered from 1 in sequence, the set at index i having
\* setNumber i + 1, also after addNewSet was called several times before the
\* view was rendered again.
C22_SetsNumberedInOrder ==
    /\ NumberedInOrder(workoutExercises)
    /\ \A h \in 1..Len(ReadArray(historyStore)) :
          NumberedInOrder(ReadArray(historyStore)[h].exercises)

\* the ids of the session exercises that end with more sets than the routine
\* exercise they come from is configured with
ExceedingIds(exercises, routine) ==
    {exercises[i].exerciseId : i \in
        {j \in 1..Len(exercises) :
            \E x \in 1..Len(routine.exercises) :
                /\ routine.exercises[x].id = exercises[j].exerciseId
                /\ Len(exercises[j].sets) > ConfiguredSets(routine.exercises[x])}}

\* the ids of the exercises of the stored routine of that id whose sets differ
\* between two stored collections
RewrittenIds(old, new, id) ==
    UNION {{old[r].exercises[x].id : x \in
               {y \in 1..Len(old[r].exercises) :
                   new[r].exercises[y].sets # old[r].exercises[y].sets}} :
           r \in {q \in 1..Len(old) : old[q].id = id}}

\* C23: Finish with at least one completed set asks for the update-routine
\* decision exactly when some session exercise ends with more sets than its
\* routine exercise is configured with (3 when it has none), and commits
\* directly, without updating the routine, otherwise; the exercises that make
\* it ask are the exercises a commit with updateRoutine rewrites.
C23_DecisionIffSetsAdded ==
    [][ /\ (lastOp'.op = "finish" /\ lastOp'.res \in {"ask", "save"}
              /\ (prompt' # prompt \/ saves' # saves)) =>
              /\ (lastOp'.res = "ask") <=>
                    (ExceedingIds(workoutExercises, Val(selectedRoutine)) # {})
              /\ lastOp'.res = "save" => ~saves'[Len(saves')].updateRoutine
        /\ (saves # <<>> /\ saves[1].pc = "setRoutines" /\ routinesStore' # routinesStore) =>
              RewrittenIds(ReadArray(routinesStore), ReadArray(routinesStore'),
                           saves[1].routine.id)
                  = ExceedingIds(saves[1].exercises, saves[1].routine)
      ]_vars

\* the text is empty or made of blanks only
Blank(text) == \A i \in 1..Len(text) : text[i] = " "

\* C24: a press of Save in the routine form with an empty or blank name, or
\* with no exercise selected, shows an "Error" alert and does nothing else:
\* nothing is read from or written to storage and the form keeps its state;
\* and every stored routine has at least one exercise.
C24_InvalidRoutineRefused ==
    [][ /\ ( /\ lastOp'.op = "saveRoutine"
             /\ now' = now
             /\ currentScreen = "form"
             /\ (Blank(routineName) \/ selectedExercises = <<>>) ) =>
                /\ lastAlert' = "Error"
                /\ UNCHANGED <<storeVars, formSaves, loads, routineName, selectedExercises,
                               editingRoutine, currentScreen, routines>>
        /\ \A i \in 1..Len(ReadArray(routinesStore')) :
              Len(ReadArray(routinesStore')[i].exercises) >= 1
      ]_vars

\* C24 witness: Save has just been refused for a form with an exercise whose
\* name field holds blanks only; no storage call has been made
C24_BlankNameRefused ==
    /\ lastOp = Op("saveRoutine", "noName")
    /\ lastAlert = "Error"
    /\ currentScreen = "form"
    /\ routineName # <<>>
    /\ Blank(routineName)
    /\ selectedExercises # <<>>
    /\ formSaves = <<>>
    /\ io.routinesGet = 0

\* C28: after any sequence of addExercise, addCustomExercise and removeExercise
\* in the routine form no two selected exercises have names that are equal
\* when compared without case.
C28_NamesDistinctWithoutCase ==
    \A i, j \in 1..Len(selectedExercises) :
        i # j => ToLowerCase(selectedExercises[i].name) # ToLowerCase(selectedExercises[j].name)

\* C25: when the stored history cannot be read or parsed at the start of a
\* session, initialize still builds the whole session: every exercise of the
\* routine gets its sets, each with weight "0" and the configured reps (10
\* only when the exercise has no reps value), no exercise is seeded from the
\* history, and no alert is shown.
C25_FallbackWithoutHistory ==
    [][lastOp' = Op("initialize", "fallback") /\ initPending =>
        LET planned == Val(selectedRoutine).exercises
        IN  /\ Len(workoutExercises') = Len(planned)
            /\ \A x \in 1..Len(planned) :
                  LET w == workoutExercises'[x]
                  IN  /\ w.exerciseId = planned[x].id
                      /\ w.exerciseName = planned[x].name
                      /\ Len(w.sets) = ConfiguredSets(planned[x])
                      /\ \A j \in 1..Len(w.sets) :
                            /\ w.sets[j].weight = <<"0">>
                            /\ w.sets[j].reps = NumberToString(ConfiguredReps(planned[x]))
                            /\ ~w.sets[j].completed
            /\ lastAlert' = lastAlert
      ]_vars

\* C29: when the stored history cannot be read or parsed during a commit, the
\* commit writes nothing: the stored history and routines are as they were,
\* the commit is over, the session stays open with its sets, and an error is
\* reported; and no write ever replaces a stored history that holds items by
\* one that holds the new item alone: the items that were stored follow it.
C29_UnreadableHistoryKept ==
    [][/\ ( /\ lastOp' = Op("saveGotHistory", "failed")
            /\ saves' # saves
            /\ now' = now )
          => /\ historyStore' = historyStore
             /\ routinesStore' = routinesStore
             /\ saves' = <<>>
             /\ currentScreen' = currentScreen
             /\ workoutExercises' = workoutExercises
             /\ selectedRoutine' = selectedRoutine
             /\ lastAlert' = "Error"
       /\ ( /\ historyStore' # historyStore
            /\ ReadArray(historyStore) # <<>> )
          => /\ IsSome(historyStore')
             /\ Len(Val(historyStore')) > 1
             /\ Tail(Val(historyStore')) = ReadArray(historyStore)
      ]_vars

\* a commit has failed on the read of a stored history that holds items, and
\* the session is still open
C29_ReadFailedInCommit ==
    /\ lastOp = Op("saveGotHistory", "failed")
    /\ currentScreen = "workout"
    /\ workoutExercises # <<>>
    /\ saves = <<>>
    /\ lastAlert = "Error"
    /\ historyStore = Some(SeedingHistory)
    /\ io.historySet = 0

\* the places of the stored history held by items of one session: the items
\* of a session carry its routine and the time it was started at
SameSession(a, b) == a.routineId = b.routineId /\ a.startTime = b.startTime

\* C26: a session persists at most one history item: no two items of the
\* stored history come from the same session, whether Finish was pressed
\* again while a commit was in flight or after a commit reported a failure.
C26_OneItemPerSession ==
    LET history == ReadArray(historyStore)
    IN  \A i, j \in 1..Len(history) :
            SameSession(history[i], history[j]) => i = j

\* the sets of a history item's snapshot, as places
SnapshotSets(item) ==
    UNION {{<<x, j>> : j \in 1..Len(item.exercises[x].sets)} : x \in 1..Len(item.exercises)}

\* C27: every history item that is persisted has 1 <= completedSets <=
\* totalSets, where totalSets is the number of sets of its exercises snapshot
\* and completedSets the number of those that are completed.
C27_PersistedCountsAgree ==
    [][historyStore' # historyStore =>
        LET item == Val(historyStore')[1]
            done == {p \in SnapshotSets(item) : item.exercises[p[1]].sets[p[2]].completed}
        IN  /\ item.totalSets = Cardinality(SnapshotSets(item))
            /\ item.completedSets = Cardinality(done)
            /\ 1 <= item.completedSets
            /\ item.completedSets <= item.totalSets
      ]_vars

\* a workout has been persisted with some of its sets completed and some not,
\* a set that carries a weight among the latter
C27_PartlyCompletedPersisted ==
    /\ lastOp.op = "saveWroteHistory"
    /\ Val(historyStore)[1].completedSets >= 1
    /\ Val(historyStore)[1].completedSets < Val(historyStore)[1].totalSets
    /\ \E x \in 1..Len(Val(historyStore)[1].exercises) :
          \E j \in 1..Len(Val(historyStore)[1].exercises[x].sets) :
              LET set == Val(historyStore)[1].exercises[x].sets[j]
              IN  ~set.completed /\ set.weight # <<"0">>

\* the rest timer is not running: nothing is left of the last rest
TimerIdle == ~timerActive /\ timerEndTime = None /\ timeRemaining = 0

\* the rest timer is running towards its end time, with no more left than
\* the rest time of the exercise it was started for
TimerRunning ==
    /\ timerActive
    /\ IsSome(timerEndTime)
    /\ timeRemaining >= 0
    /\ \E x \in 1..Len(workoutExercises) : timeRemaining <= workoutExercises[x].restTime

\* C30: in every state of a session the three timer fields agree: the timer
\* is idle (not active, no end time, nothing remaining) or running (active,
\* an end time, a remaining time between 0 and the rest time it was started
\* with); a start, an expiry found by a tick or on resume, and a skip move
\* the three fields together.
C30_TimerFieldsAgree ==
    currentScreen = "workout" /\ component = "current" => TimerIdle \/ TimerRunning

\* a rest has been started, has run for some ticks after a stay in the
\* background, and a tick has found it expired
C30_ExpiredByTick ==
    /\ currentScreen = "workout"
    /\ lastOp = Op("tick", "expired")
    /\ TimerIdle
    /\ notifications >= 1
====
